---- MODULE Spec2Model ----
(***************************************************************************)
(* The template engine of src/Chatu.py: the Engine's three caches and its  *)
(* lock under concurrent callers, the routines the BlockBuilder generates  *)
(* for defs / extends, and what a render does with local_defs/super_defs.  *)
(***************************************************************************)
EXTENDS Integers, Sequences, FiniteSets, TLC

\* ------------------------------------------------------------------ bounds
\* Number of top-level calls the callers make in one run.
MaxOps == 3

\* The same, in the runs checked under fair scheduling.
MaxFairOps == 2
\* Templates in an extends chain, and nodes in the base template.
MaxChain == 2
MaxItems == 3
\* Tokens in a stream handed to the parser.
MaxTokens == 4
\* Characters in a source tried in every arrangement.
MaxLen == 4
\* Filters a variable names, and numbers in the list a template loops over.
MaxFilters == 3
MaxList == 3
\* The tokens of a source given to the builder.
MaxShapes == 3

\* ------------------------------------------------------------- the inputs
Threads == {"t1", "t2"}

\* Template names. Null is Python's None, Empty the empty string.
Null == "<None>"
Empty == ""
Falsy == {Null, Empty}
Truthy(name) == name \notin Falsy
\* Names the Loader resolves (Loader.templates / files under template_folder).
Loaded == {"a", "b"}

\* Keyword options of get_template / import_name: none, or source=<text>.
NoOpts == "none"
\*   "ok":     text that compiles (markup only)
\*   "broken": text the lexer, the grouping or compile() rejects: each of the
\*             three raises SyntaxError out of the same stretch of code
\*   "baddef": text whose def header raises NameError when it is executed
Sources == {"ok", "broken", "baddef"}

\* The calls the callers make. get_template: a name the Loader resolves, alone or
\* with source=; no name (None, "") with inline source; None alone (Loader fails).
GetTemplateArgs ==
    {<<"a", NoOpts>>, <<"b", NoOpts>>, <<"a", "ok">>, <<"a", "broken">>,
     <<Null, "ok">>, <<Empty, "ok">>, <<Null, NoOpts>>}
\* import_name: the Loader's text, source= with a def whose header raises, and
\* the empty name with inline source.
ImportArgs == {<<"a", NoOpts>>, <<"a", "baddef">>, <<Empty, "ok">>}
\* Engine.render: a name and a context.
RenderArgs == {<<"a", "full">>, <<"a", "missing">>, <<"b", "full">>}

\* The render context: does it hold the key the template requires?
Contexts == {"full", "missing"}

Free == "free"
NoObj == [name |-> Null, ver |-> 0, src |-> NoOpts]

\* ------------------------------------------------------------------ state
VARIABLES
    templates,   \* Engine.templates: name -> Template
    renders,     \* Engine.renders:   name -> Template.render_template
    modules,     \* Engine.modules:   name -> module namespace
    lock,        \* Engine.lock: Free or the thread holding it
    stk,         \* per thread: its call stack (top is the last frame)
    res,         \* per thread: what its last top-level call returned/raised
    dicts,       \* live local_defs / super_defs tables: id -> names defined
    compiled,    \* per name: how many Templates compile_template has built for it
    clean,       \* per thread: its current/last call is a get_template, and no
                 \* eviction has touched that call's name since the call began
    ops,         \* top-level calls started so far
    budget       \* top-level calls the callers make in this run

engineVars ==
    <<templates, renders, modules, lock, stk, res, dicts, compiled, clean, ops, budget>>

\* One render of a chain of templates linked by extends, statement by statement.
VARIABLES
    chain,       \* the templates: chain[1] extends chain[2] ..., the last is the base
    rframes,     \* the stack of running routines (top is the last)
    local_defs,  \* the local_defs table the routines share: name -> def body
    super_defs,  \* the super_defs table they share
    result,      \* "running", or how the render ended and what it returned
    calls,       \* the def bodies invoked so far: who called which, and how
    defined      \* the defs executed so far, in execution order: template, name

renderVars == <<chain, rframes, local_defs, super_defs, result, calls, defined>>

\* One compilation, stage by stage: Loader.load, Lexer.tokenize token by token,
\* Parser.end_continue, Parser.parse_iter, then the render of what was built.
VARIABLES
    request,     \* what is asked for: the name, and source= if it is given
    loaded,      \* what Loader.load returned: (path, text)
    pos,         \* tokenize: the position in the text (0-based, as in the code)
    lineno,      \* tokenize: the line of the next token
    tokens,      \* the tokens made so far, then the stream after end_continue
    tree,        \* the nodes parse_iter yields
    built,       \* the statements of the render function BlockBuilder made
    written,     \* what the render returned
    phase,       \* the stage the compilation is at
    failure      \* the error that ended it, if one did

compileVars ==
    <<request, loaded, pos, lineno, tokens, tree, built, written, phase, failure>>

\* One BlockBuilder at work, call of add by call of add.
VARIABLES
    given,       \* the nodes it is made with: the render compound over a tree
    builder,     \* the BlockBuilder: its lines, lineno, offset, indent, local_vars
    todo,        \* what the build methods that are running have yet to do (top is last)
    building,    \* "no", "yes", "raising", "done" or "failed"
    raising,     \* the exception that ended the build, if one did
    added,       \* the calls of add so far: the line given and where the code went
    required     \* the calls of build_require so far

buildVars == <<given, builder, todo, building, raising, added, required>>

vars == <<engineVars, renderVars, compileVars, buildVars>>

\* --------------------------------------------------------------- mappings
Put(f, k, v) == [x \in DOMAIN f \cup {k} |-> IF x = k THEN v ELSE f[x]]
Del(f, k) == [x \in DOMAIN f \ {k} |-> f[x]]
EmptyMap == [x \in {} |-> NoObj]

\* ------------------------------------------------------------------ frames
NoRes == [k |-> "none", v |-> "none"]
Ret(v) == [k |-> "ret", v |-> v]
Exc(v) == [k |-> "exc", v |-> v]

Frame(fn, pc, name, kw) ==
    [fn |-> fn, pc |-> pc, name |-> name, kw |-> kw, ctx |-> "full",
     ld |-> 0, sd |-> 0, obj |-> NoObj, ip |-> 1, n |-> 0, hit |-> FALSE,
     wrote |-> FALSE, pend |-> NoRes]

Top(t) == stk[t][Len(stk[t])]
Pop(s) == SubSeq(s, 1, Len(s) - 1)
Busy(t) == stk[t] # <<>>
At(t, fn, pc) == Busy(t) /\ Top(t).fn = fn /\ Top(t).pc = pc
SetTop(s, f) == [s EXCEPT ![Len(s)] = f]

\* ------------------------------------------------- what the sources compile to
\* The stage at which the pipeline of load_and_parse / build / compile_code
\* rejects a source ("ok": none). Without source= the Loader resolves the name;
\* a name it does not know (here: None and "") fails in Loader.load.
Stage(name, kw) ==
    IF kw = NoOpts THEN (IF name \in Loaded THEN "ok" ELSE "load")
    ELSE IF kw = "broken" THEN "syntax" ELSE "ok"

\* The error each failing stage raises.
StageError(stage) == IF stage = "load" THEN "IOError" ELSE "SyntaxError"

\* exec of a module's generated code fails when a def header raises.
ExecFails(name, kw) == kw = "baddef"

I(op, arg) == [op |-> op, arg |-> arg]
\* The Loader's templates, as the statements their routines execute:
\*   a:  %require(v)
\*   b:  %def blk(): ... %end / %include("a") / %import "a" as m
Library(name) ==
    IF name = "a" THEN <<I("require", "v")>>
    ELSE <<I("def", "blk"), I("include", "a"), I("import", "a")>>

\* The routine of a compiled Template: from the Loader's text, or from source=.
Program(obj) == IF obj.src = NoOpts THEN Library(obj.name) ELSE <<>>

\* --------------------------------------------------------- calls and returns
\* A callee returned or raised r into the stack s of its callers: what the
\* callers' code does with it, down to the frame that goes on running.
RECURSIVE Deliver(_, _)
Deliver(s, r) ==
    IF s = <<>> THEN [stk |-> <<>>, out |-> r]
    ELSE LET f == s[Len(s)] IN
      CASE f.pc = "gt_remove" /\ r.k = "ret" ->
             \* get_template: remove(name) returned, go on to the lookup
             [stk |-> SetTop(s, [f EXCEPT !.pc = "gt_lookup"]), out |-> NoRes]
        [] f.pc = "er_first" /\ r = Exc("KeyError") ->
             \* Engine.render: `except KeyError` around lookup AND invocation
             [stk |-> Append(SetTop(s, [f EXCEPT !.pc = "er_compile"]),
                             Frame("compile_template", "acquire", f.name, NoOpts)),
              out |-> NoRes]
        [] f.pc = "er_compile" /\ r.k = "ret" ->
             [stk |-> SetTop(s, [f EXCEPT !.pc = "er_second"]), out |-> NoRes]
        [] f.pc = "in_compile" /\ r.k = "ret" ->
             [stk |-> SetTop(s, [f EXCEPT !.pc = "in_final"]), out |-> NoRes]
        [] f.pc = "rt_call" /\ r.k = "ret" ->
             [stk |-> SetTop(s, [f EXCEPT !.pc = "rt_run", !.ip = @ + 1]), out |-> NoRes]
        [] OTHER ->
             \* the caller returns the callee's value, or does not catch its error
             Deliver(Pop(s), r)

\* The tables still referenced by some frame of the stacks ss.
LiveDicts(ss) ==
    UNION {UNION {{ss[t][i].ld, ss[t][i].sd} : i \in 1..Len(ss[t])} : t \in Threads}

\* What the caller keeps of a finished call (the name and options: of get_template).
Result(f, r) ==
    IF f.fn = "get_template"
    THEN [op |-> f.fn, name |-> f.name, kw |-> f.kw, k |-> r.k, v |-> r.v]
    ELSE [op |-> f.fn, name |-> Null, kw |-> NoOpts, k |-> r.k, v |-> r.v]
Idle == [op |-> "none", name |-> Null, kw |-> NoOpts, k |-> "none", v |-> "none"]

\* Thread t's top frame returns or raises r; the tables of a finished call are garbage.
Finish(t, r) ==
    LET d == Deliver(Pop(stk[t]), r) IN
    /\ stk' = [stk EXCEPT ![t] = d.stk]
    /\ res' = [res EXCEPT ![t] = IF d.stk = <<>> THEN Result(stk[t][1], d.out) ELSE @]
    /\ dicts' = [i \in DOMAIN dicts \cap LiveDicts(stk') |-> dicts[i]]

\* Thread t's top frame becomes f / calls g after becoming f.
Goto(t, f) == stk' = [stk EXCEPT ![t] = SetTop(@, f)]
Call(t, f, g) == stk' = [stk EXCEPT ![t] = Append(SetTop(@, f), g)]

\* The name thread t's current (or last) top-level call is about.
CallName(t) == IF Busy(t) THEN stk[t][1].name ELSE res[t].name
\* templates[name] was evicted / all of templates was: the calls it intervenes in.
Evicted(name) == [u \in Threads |-> clean[u] /\ CallName(u) # name]
EvictedAll == [u \in Threads |-> FALSE]

\* A caller starts a top-level call with frames fs.
Begin(t, fs) ==
    /\ ~Busy(t)
    /\ ops < budget
    /\ ops' = ops + 1
    /\ stk' = [stk EXCEPT ![t] = fs]
    /\ res' = [res EXCEPT ![t] = Idle]
    /\ clean' = [clean EXCEPT ![t] = fs[1].fn = "get_template"]

\* Two table ids not in use (a new {} each).
NewDict1 == CHOOSE i \in 1..(2 * Cardinality(Threads) + 2) : i \notin DOMAIN dicts
NewDict2 == CHOOSE i \in 1..(2 * Cardinality(Threads) + 2) : i \notin DOMAIN dicts \cup {NewDict1}

\* ---------------------------------------------------------- top-level calls
\* Engine.get_template(name, **kwargs): `if name and kwargs: self.remove(name)`
get_template(t, name, kw) ==
    /\ Begin(t, IF Truthy(name) /\ kw # NoOpts
                THEN <<Frame("get_template", "gt_remove", name, kw),
                       Frame("remove", "acquire", name, NoOpts)>>
                ELSE <<Frame("get_template", "gt_lookup", name, kw)>>)
    /\ UNCHANGED <<templates, renders, modules, lock, dicts, compiled>>
    /\ UNCHANGED <<budget, renderVars, compileVars, buildVars>>

\* Template.render(ctx) on the Template the caller got from its last call:
\* self.render_template(ctx or kwargs, {}, {})
Template_render(t, ctx) ==
    /\ res[t].k = "ret" /\ res[t].op = "get_template"
    /\ Begin(t, <<[Frame("Template.render", "tr_wait", res[t].v.name, NoOpts)
                     EXCEPT !.obj = res[t].v, !.ld = NewDict1, !.sd = NewDict2],
                  [Frame("routine", "rt_run", res[t].v.name, NoOpts)
                     EXCEPT !.obj = res[t].v, !.ctx = ctx,
                            !.ld = NewDict1, !.sd = NewDict2]>>)
    /\ dicts' = Put(Put(dicts, NewDict1, {}), NewDict2, {})
    /\ UNCHANGED <<templates, renders, modules, lock, compiled>>
    /\ UNCHANGED <<budget, renderVars, compileVars, buildVars>>

\* Engine.render(name, ctx, local_defs, super_defs), the caller passing two tables.
render(t, name, ctx) ==
    /\ Begin(t, <<[Frame("render", "er_try", name, NoOpts)
                     EXCEPT !.ctx = ctx, !.ld = NewDict1, !.sd = NewDict2]>>)
    /\ dicts' = Put(Put(dicts, NewDict1, {}), NewDict2, {})
    /\ UNCHANGED <<templates, renders, modules, lock, compiled>>
    /\ UNCHANGED <<budget, renderVars, compileVars, buildVars>>

\* Engine.import_name(name, **kwargs)
import_name(t, name, kw) ==
    /\ Begin(t, <<Frame("import_name", "in_try", name, kw)>>)
    /\ UNCHANGED <<templates, renders, modules, lock, dicts, compiled>>
    /\ UNCHANGED <<budget, renderVars, compileVars, buildVars>>

\* Engine.remove(name), entered through the lock_acquire wrapper.
remove(t, name) ==
    /\ Begin(t, <<Frame("remove", "acquire", name, NoOpts)>>)
    /\ UNCHANGED <<templates, renders, modules, lock, dicts, compiled>>
    /\ UNCHANGED <<budget, renderVars, compileVars, buildVars>>

\* Engine.clear(): no wrapper; three attribute stores, the first of them now.
clear(t) ==
    /\ Begin(t, <<Frame("clear", "cl_templates", Null, NoOpts)>>)
    /\ UNCHANGED <<templates, renders, modules, lock, dicts, compiled>>
    /\ UNCHANGED <<budget, renderVars, compileVars, buildVars>>

\* ------------------------------------------------------------ lock_acquire
\* Where the body of each wrapped method starts.
Body(fn) ==
    CASE fn = "remove" -> "rm_check"
      [] fn = "compile_template" -> "ct_check"
      [] fn = "compile_import" -> "ci_check"

\* wrapper: self.lock.acquire(1) blocks until the lock is free.
lock_acquire(t) ==
    /\ At(t, Top(t).fn, "acquire")
    /\ lock = Free
    /\ lock' = t
    /\ Goto(t, [Top(t) EXCEPT !.pc = Body(Top(t).fn)])
    /\ UNCHANGED <<templates, renders, modules, res, dicts, compiled, clean, ops>>
    /\ UNCHANGED <<budget, renderVars, compileVars, buildVars>>

\* A wrapper that releases the lock after a return only, with no finally.
lock_release_on_return(t) ==
    /\ At(t, Top(t).fn, "release")
    /\ lock' = IF Top(t).pend.k = "exc" THEN lock ELSE Free
    /\ Finish(t, Top(t).pend)
    /\ UNCHANGED <<templates, renders, modules, compiled, clean, ops>>
    /\ UNCHANGED <<budget, renderVars, compileVars, buildVars>>

\* wrapper: `finally: self.lock.release()`, then the value or the error goes on.
lock_release(t) ==
    /\ At(t, Top(t).fn, "release")
    /\ lock' = Free
    /\ Finish(t, Top(t).pend)
    /\ UNCHANGED <<templates, renders, modules, compiled, clean, ops>>
    /\ UNCHANGED <<budget, renderVars, compileVars, buildVars>>

\* The body of a wrapped method ends with r: the wrapper's finally comes next.
Leave(t, r) == Goto(t, [Top(t) EXCEPT !.pc = "release", !.pend = r])

\* ------------------------------------------------------------ Engine.remove
\* `if name in self.renders:`
remove_check(t) ==
    /\ At(t, "remove", "rm_check")
    /\ Goto(t, [Top(t) EXCEPT !.pc = IF Top(t).name \in DOMAIN renders
                                     THEN "rm_del_templates" ELSE "rm_check_modules"])
    /\ UNCHANGED <<templates, renders, modules, lock, res, dicts, compiled, clean, ops>>
    /\ UNCHANGED <<budget, renderVars, compileVars, buildVars>>

\* `del self.templates[name]` (KeyError when the entry is not there)
remove_del_templates(t) ==
    /\ At(t, "remove", "rm_del_templates")
    /\ IF Top(t).name \in DOMAIN templates
       THEN /\ templates' = Del(templates, Top(t).name)
            /\ clean' = Evicted(Top(t).name)
            /\ Goto(t, [Top(t) EXCEPT !.pc = "rm_del_renders"])
       ELSE /\ Leave(t, Exc("KeyError"))
            /\ UNCHANGED <<templates, clean>>
    /\ UNCHANGED <<renders, modules, lock, res, dicts, compiled, ops>>
    /\ UNCHANGED <<budget, renderVars, compileVars, buildVars>>

\* `, self.renders[name]`
remove_del_renders(t) ==
    /\ At(t, "remove", "rm_del_renders")
    /\ IF Top(t).name \in DOMAIN renders
       THEN /\ renders' = Del(renders, Top(t).name)
            /\ Goto(t, [Top(t) EXCEPT !.pc = "rm_check_modules"])
       ELSE /\ Leave(t, Exc("KeyError"))
            /\ UNCHANGED renders
    /\ UNCHANGED <<templates, modules, lock, res, dicts, compiled, clean, ops>>
    /\ UNCHANGED <<budget, renderVars, compileVars, buildVars>>

\* `if name in self.modules:`
remove_check_modules(t) ==
    /\ At(t, "remove", "rm_check_modules")
    /\ IF Top(t).name \in DOMAIN modules
       THEN Goto(t, [Top(t) EXCEPT !.pc = "rm_del_modules"])
       ELSE Leave(t, Ret("None"))
    /\ UNCHANGED <<templates, renders, modules, lock, res, dicts, compiled, clean, ops>>
    /\ UNCHANGED <<budget, renderVars, compileVars, buildVars>>

\* `del self.modules[name]`
remove_del_modules(t) ==
    /\ At(t, "remove", "rm_del_modules")
    /\ IF Top(t).name \in DOMAIN modules
       THEN /\ modules' = Del(modules, Top(t).name)
            /\ Leave(t, Ret("None"))
       ELSE /\ Leave(t, Exc("KeyError"))
            /\ UNCHANGED modules
    /\ UNCHANGED <<templates, renders, lock, res, dicts, compiled, clean, ops>>
    /\ UNCHANGED <<budget, renderVars, compileVars, buildVars>>

\* ------------------------------------------------------------- Engine.clear
\* `self.templates, self.renders, self.modules = {}, {}, {}`: the three stores
\* are separate bytecodes, and no lock is taken.
clear_templates(t) ==
    /\ At(t, "clear", "cl_templates")
    /\ templates' = EmptyMap
    /\ clean' = EvictedAll
    /\ Goto(t, [Top(t) EXCEPT !.pc = "cl_renders"])
    /\ UNCHANGED <<renders, modules, lock, res, dicts, compiled, ops>>
    /\ UNCHANGED <<budget, renderVars, compileVars, buildVars>>

clear_renders(t) ==
    /\ At(t, "clear", "cl_renders")
    /\ renders' = EmptyMap
    /\ Goto(t, [Top(t) EXCEPT !.pc = "cl_modules"])
    /\ UNCHANGED <<templates, modules, lock, res, dicts, compiled, clean, ops>>
    /\ UNCHANGED <<budget, renderVars, compileVars, buildVars>>

clear_modules(t) ==
    /\ At(t, "clear", "cl_modules")
    /\ modules' = EmptyMap
    /\ Finish(t, Ret("None"))
    /\ UNCHANGED <<templates, renders, lock, compiled, clean, ops>>
    /\ UNCHANGED <<budget, renderVars, compileVars, buildVars>>

\* ------------------------------------------------------ Engine.get_template
\* `try: return self.templates[name]` / `except KeyError: return
\* self.compile_template(name, **kwargs)`
get_template_lookup(t) ==
    /\ At(t, "get_template", "gt_lookup")
    /\ IF Top(t).name \in DOMAIN templates
       THEN Finish(t, Ret(templates[Top(t).name]))
       ELSE /\ Call(t, [Top(t) EXCEPT !.pc = "gt_compile"],
                    Frame("compile_template", "acquire", Top(t).name, Top(t).kw))
            /\ UNCHANGED <<res, dicts>>
    /\ UNCHANGED <<templates, renders, modules, lock, compiled, clean, ops>>
    /\ UNCHANGED <<budget, renderVars, compileVars, buildVars>>

\* -------------------------------------------------- Engine.compile_template
\* The Template the pipeline makes for (name, kw): a new object each time.
NewTemplate(name, kw) ==
    [name |-> name, ver |-> IF name \in Loaded THEN compiled[name] + 1 ELSE 1, src |-> kw]

\* A compile_template that caches whatever its name is.
AfterBuild_any_name(f) ==
    [f EXCEPT !.pc = "ct_put_templates", !.obj = NewTemplate(f.name, f.kw)]

\* Where compile_template goes once the Template is built: `if name:` the two
\* inserts, else straight to `return template`.
AfterBuild(f) ==
    IF Truthy(f.name)
    THEN [f EXCEPT !.pc = "ct_put_templates", !.obj = NewTemplate(f.name, f.kw)]
    ELSE [f EXCEPT !.pc = "release", !.obj = NewTemplate(f.name, f.kw),
                   !.pend = Ret(NewTemplate(f.name, f.kw))]

\* A compile_template without the `if name in self.templates` check.
compile_template_build_unchecked(t) ==
    /\ At(t, "compile_template", "ct_check")
    /\ IF Stage(Top(t).name, Top(t).kw) = "ok"
       THEN /\ Goto(t, AfterBuild(Top(t)))
            /\ compiled' = [n \in Loaded |-> IF n = Top(t).name THEN compiled[n] + 1
                                                               ELSE compiled[n]]
       ELSE /\ Leave(t, Exc(StageError(Stage(Top(t).name, Top(t).kw))))
            /\ UNCHANGED compiled
    /\ UNCHANGED <<templates, renders, modules, lock, res, dicts, clean, ops>>
    /\ UNCHANGED <<budget, renderVars, compileVars, buildVars>>

\* A compile_template that puts the name in templates before the pipeline runs.
compile_template_build_cache_first(t) ==
    /\ At(t, "compile_template", "ct_check")
    /\ IF Top(t).name \in DOMAIN templates
       THEN /\ Leave(t, Ret(templates[Top(t).name]))
            /\ UNCHANGED <<compiled, templates>>
       ELSE IF Stage(Top(t).name, Top(t).kw) = "ok"
       THEN /\ Goto(t, AfterBuild(Top(t)))
            /\ compiled' = [n \in Loaded |-> IF n = Top(t).name THEN compiled[n] + 1
                                                               ELSE compiled[n]]
            /\ UNCHANGED templates
       ELSE /\ templates' = Put(templates, Top(t).name, NewTemplate(Top(t).name, Top(t).kw))
            /\ Leave(t, Exc(StageError(Stage(Top(t).name, Top(t).kw))))
            /\ UNCHANGED compiled
    /\ UNCHANGED <<renders, modules, lock, res, dicts, clean, ops>>
    /\ UNCHANGED <<budget, renderVars, compileVars, buildVars>>

\* `if name in self.templates: return self.templates[name]`, else
\* load_and_parse, list(nodes), self.build, compile_code, exec, template_class:
\* all of these on local values; an error of any stage leaves through the wrapper.
compile_template_build(t) ==
    /\ At(t, "compile_template", "ct_check")
    /\ IF Top(t).name \in DOMAIN templates
       THEN /\ Leave(t, Ret(templates[Top(t).name]))
            /\ UNCHANGED compiled
       ELSE IF Stage(Top(t).name, Top(t).kw) = "ok"
       THEN /\ Goto(t, AfterBuild(Top(t)))
            /\ compiled' = [n \in Loaded |-> IF n = Top(t).name THEN compiled[n] + 1
                                                               ELSE compiled[n]]
       ELSE /\ Leave(t, Exc(StageError(Stage(Top(t).name, Top(t).kw))))
            /\ UNCHANGED compiled
    /\ UNCHANGED <<templates, renders, modules, lock, res, dicts, clean, ops>>
    /\ UNCHANGED <<budget, renderVars, compileVars, buildVars>>

\* `self.templates[name] = template`
compile_template_put_templates(t) ==
    /\ At(t, "compile_template", "ct_put_templates")
    /\ templates' = Put(templates, Top(t).name, Top(t).obj)
    /\ Goto(t, [Top(t) EXCEPT !.pc = "ct_put_renders", !.wrote = TRUE])
    /\ UNCHANGED <<renders, modules, lock, res, dicts, compiled, clean, ops>>
    /\ UNCHANGED <<budget, renderVars, compileVars, buildVars>>

\* `self.renders[name] = template.render_template`, then `return template`
compile_template_put_renders(t) ==
    /\ At(t, "compile_template", "ct_put_renders")
    /\ renders' = Put(renders, Top(t).name, Top(t).obj)
    /\ Leave(t, Ret(Top(t).obj))
    /\ UNCHANGED <<templates, modules, lock, res, dicts, compiled, clean, ops>>
    /\ UNCHANGED <<budget, renderVars, compileVars, buildVars>>

\* ---------------------------------------------------- Engine.compile_import
\* `if name in self.modules: return`, else
\* load_and_parse, the def nodes, self.build, compile_code (local values)
compile_import_build(t) ==
    /\ At(t, "compile_import", "ci_check")
    /\ IF Top(t).name \in DOMAIN modules
       THEN Leave(t, Ret("None"))
       ELSE IF Stage(Top(t).name, Top(t).kw) = "ok"
       THEN Goto(t, [Top(t) EXCEPT !.pc = "ci_put_modules"])
       ELSE Leave(t, Exc(StageError(Stage(Top(t).name, Top(t).kw))))
    /\ UNCHANGED <<templates, renders, modules, lock, res, dicts, compiled, clean, ops>>
    /\ UNCHANGED <<budget, renderVars, compileVars, buildVars>>

\* What compile_import stores under modules[name]: the new, still empty module.
NewModule(name) == [name |-> name, bound |-> FALSE]

\* `self.modules[name] = module = _new_module(name)`
compile_import_put_modules(t) ==
    /\ At(t, "compile_import", "ci_put_modules")
    /\ modules' = Put(modules, Top(t).name, NewModule(Top(t).name))
    /\ Goto(t, [Top(t) EXCEPT !.pc = "ci_exec", !.wrote = TRUE])
    /\ UNCHANGED <<templates, renders, lock, res, dicts, compiled, clean, ops>>
    /\ UNCHANGED <<budget, renderVars, compileVars, buildVars>>

\* `module.__dict__.update(self.global_vars)`; `exec(compiled, module.__dict__)`:
\* binds the defs in the module object (wherever it is referenced from), or raises.
compile_import_exec(t) ==
    /\ At(t, "compile_import", "ci_exec")
    /\ IF ExecFails(Top(t).name, Top(t).kw)
       THEN /\ Leave(t, Exc("NameError"))
            /\ UNCHANGED modules
       ELSE /\ modules' = IF Top(t).name \in DOMAIN modules
                          THEN Put(modules, Top(t).name, [name |-> Top(t).name, bound |-> TRUE])
                          ELSE modules
            /\ Leave(t, Ret("None"))
    /\ UNCHANGED <<templates, renders, lock, res, dicts, compiled, clean, ops>>
    /\ UNCHANGED <<budget, renderVars, compileVars, buildVars>>

\* ------------------------------------------------------- Engine.import_name
\* `try: return self.modules[name]` / `except KeyError: self.compile_import(...)`
import_name_try(t) ==
    /\ At(t, "import_name", "in_try")
    /\ IF Top(t).name \in DOMAIN modules
       THEN Finish(t, Ret(modules[Top(t).name]))
       ELSE /\ Call(t, [Top(t) EXCEPT !.pc = "in_compile"],
                    Frame("compile_import", "acquire", Top(t).name, Top(t).kw))
            /\ UNCHANGED <<res, dicts>>
    /\ UNCHANGED <<templates, renders, modules, lock, compiled, clean, ops>>
    /\ UNCHANGED <<budget, renderVars, compileVars, buildVars>>

\* `return self.modules[name]` after the compile
import_name_final(t) ==
    /\ At(t, "import_name", "in_final")
    /\ IF Top(t).name \in DOMAIN modules
       THEN Finish(t, Ret(modules[Top(t).name]))
       ELSE Finish(t, Exc("KeyError"))
    /\ UNCHANGED <<templates, renders, modules, lock, compiled, clean, ops>>
    /\ UNCHANGED <<budget, renderVars, compileVars, buildVars>>

\* ------------------------------------------------------------ Engine.render
\* The routine renders[name] is invoked by frame f with f's ctx and tables.
Invoke(f, routine) ==
    [Frame("routine", "rt_run", routine.name, NoOpts)
       EXCEPT !.obj = routine, !.ctx = f.ctx, !.ld = f.ld, !.sd = f.sd]

\* `try: return self.renders[name](ctx, local_defs, super_defs)`; a KeyError of
\* the lookup goes to `except KeyError: self.compile_template(name)`.
render_try(t) ==
    /\ At(t, "render", "er_try")
    /\ IF Top(t).name \in DOMAIN renders
       THEN Call(t, [Top(t) EXCEPT !.pc = "er_first", !.n = @ + 1, !.hit = TRUE],
                 Invoke(Top(t), renders[Top(t).name]))
       ELSE Call(t, [Top(t) EXCEPT !.pc = "er_compile"],
                 Frame("compile_template", "acquire", Top(t).name, NoOpts))
    /\ UNCHANGED <<templates, renders, modules, lock, res, dicts, compiled, clean, ops>>
    /\ UNCHANGED <<budget, renderVars, compileVars, buildVars>>

\* `return self.renders[name](ctx, local_defs, super_defs)` after the compile
render_second(t) ==
    /\ At(t, "render", "er_second")
    /\ IF Top(t).name \in DOMAIN renders
       THEN /\ Call(t, [Top(t) EXCEPT !.pc = "er_last", !.n = @ + 1],
                    Invoke(Top(t), renders[Top(t).name]))
            /\ UNCHANGED <<res, dicts>>
       ELSE Finish(t, Exc("KeyError"))
    /\ UNCHANGED <<templates, renders, modules, lock, compiled, clean, ops>>
    /\ UNCHANGED <<budget, renderVars, compileVars, buildVars>>

\* --------------------------------------------- the generated render routine
Instr(f) == Program(f.obj)[f.ip]

\* `return "".join(_b)`
routine_return(t) ==
    /\ At(t, "routine", "rt_run")
    /\ Top(t).ip > Len(Program(Top(t).obj))
    /\ Finish(t, Ret("str"))
    /\ UNCHANGED <<templates, renders, modules, lock, compiled, clean, ops>>
    /\ UNCHANGED <<budget, renderVars, compileVars, buildVars>>

\* build_require: `v = ctx['v']`
routine_require(t) ==
    /\ At(t, "routine", "rt_run")
    /\ Top(t).ip <= Len(Program(Top(t).obj))
    /\ Instr(Top(t)).op = "require"
    /\ IF Top(t).ctx = "missing"
       THEN Finish(t, Exc("KeyError"))
       ELSE /\ Goto(t, [Top(t) EXCEPT !.ip = @ + 1])
            /\ UNCHANGED <<res, dicts>>
    /\ UNCHANGED <<templates, renders, modules, lock, compiled, clean, ops>>
    /\ UNCHANGED <<budget, renderVars, compileVars, buildVars>>

\* build_def: the def, then
\* `super_defs['blk'] = blk; blk = local_defs.setdefault('blk', blk)`
routine_def(t) ==
    /\ At(t, "routine", "rt_run")
    /\ Top(t).ip <= Len(Program(Top(t).obj))
    /\ Instr(Top(t)).op = "def"
    /\ dicts' = [dicts EXCEPT ![Top(t).sd] = @ \cup {Instr(Top(t)).arg},
                              ![Top(t).ld] = @ \cup {Instr(Top(t)).arg}]
    /\ Goto(t, [Top(t) EXCEPT !.ip = @ + 1])
    /\ UNCHANGED <<templates, renders, modules, lock, res, compiled, clean, ops>>
    /\ UNCHANGED <<budget, renderVars, compileVars, buildVars>>

\* build_out, include: `w(_r("a", ctx, local_defs, super_defs))`
routine_include(t) ==
    /\ At(t, "routine", "rt_run")
    /\ Top(t).ip <= Len(Program(Top(t).obj))
    /\ Instr(Top(t)).op = "include"
    /\ Call(t, [Top(t) EXCEPT !.pc = "rt_call"],
            [Frame("render", "er_try", Instr(Top(t)).arg, NoOpts)
               EXCEPT !.ctx = Top(t).ctx, !.ld = Top(t).ld, !.sd = Top(t).sd])
    /\ UNCHANGED <<templates, renders, modules, lock, res, dicts, compiled, clean, ops>>
    /\ UNCHANGED <<budget, renderVars, compileVars, buildVars>>

\* build_import: `m = _i("a")`
routine_import(t) ==
    /\ At(t, "routine", "rt_run")
    /\ Top(t).ip <= Len(Program(Top(t).obj))
    /\ Instr(Top(t)).op = "import"
    /\ Call(t, [Top(t) EXCEPT !.pc = "rt_call"],
            Frame("import_name", "in_try", Instr(Top(t)).arg, NoOpts))
    /\ UNCHANGED <<templates, renders, modules, lock, res, dicts, compiled, clean, ops>>
    /\ UNCHANGED <<budget, renderVars, compileVars, buildVars>>

\* ------------------------------------------------------- the specification
\* No chain is being rendered.
NoRender ==
    /\ chain = <<>>
    /\ rframes = <<>>
    /\ local_defs = EmptyMap
    /\ super_defs = EmptyMap
    /\ result = [status |-> "none", value |-> <<>>]
    /\ calls = {}
    /\ defined = <<>>

\* Nothing is being compiled stage by stage.
NoCompile ==
    /\ request = [name |-> Null, source |-> <<>>]
    /\ loaded = [path |-> Null, text |-> <<>>]
    /\ pos = 0
    /\ lineno = 1
    /\ tokens = <<>>
    /\ tree = <<>>
    /\ built = <<>>
    /\ written = <<>>
    /\ phase = "none"
    /\ failure = [error |-> "none", line |-> 0]

\* No BlockBuilder is at work.
NoBuild ==
    /\ given = <<>>
    /\ builder = [lines |-> <<>>, lineno |-> 0, offset |-> 0, indent |-> 0, local_vars |-> {}]
    /\ todo = <<>>
    /\ building = "no"
    /\ raising = "none"
    /\ added = <<>>
    /\ required = <<>>

\* A new Engine, and no call in progress.
NewEngine ==
    /\ templates = EmptyMap
    /\ renders = EmptyMap
    /\ modules = EmptyMap
    /\ lock = Free
    /\ stk = [t \in Threads |-> <<>>]
    /\ res = [t \in Threads |-> Idle]
    /\ dicts = [i \in {} |-> {}]
    /\ compiled = [n \in Loaded |-> 0]
    /\ clean = [t \in Threads |-> FALSE]
    /\ ops = 0

Init == NewEngine /\ budget = MaxOps /\ NoRender /\ NoCompile /\ NoBuild

\* The calls a caller may start.
Calls(t) ==
    \/ \E a \in GetTemplateArgs : get_template(t, a[1], a[2])
    \/ \E ctx \in Contexts : Template_render(t, ctx)
    \/ \E a \in RenderArgs : render(t, a[1], a[2])
    \/ \E a \in ImportArgs : import_name(t, a[1], a[2])
    \/ \E name \in Loaded : remove(t, name)
    \/ clear(t)

\* The steps of a call in progress.
Step(t) ==
    \/ lock_acquire(t)
    \/ lock_release(t)
    \/ remove_check(t)
    \/ remove_del_templates(t)
    \/ remove_del_renders(t)
    \/ remove_check_modules(t)
    \/ remove_del_modules(t)
    \/ clear_templates(t)
    \/ clear_renders(t)
    \/ clear_modules(t)
    \/ get_template_lookup(t)
    \/ compile_template_build(t)
    \/ compile_template_put_templates(t)
    \/ compile_template_put_renders(t)
    \/ compile_import_build(t)
    \/ compile_import_put_modules(t)
    \/ compile_import_exec(t)
    \/ import_name_try(t)
    \/ import_name_final(t)
    \/ render_try(t)
    \/ render_second(t)
    \/ routine_return(t)
    \/ routine_require(t)
    \/ routine_def(t)
    \/ routine_include(t)
    \/ routine_import(t)

Next == \E t \in Threads : Calls(t) \/ Step(t)

Spec == Init /\ [][Next]_vars

\* Fair scheduling: a thread that can take a step eventually does, and one that
\* asks for the lock again and again while it keeps becoming free gets it.
FairInit == NewEngine /\ budget = MaxFairOps /\ NoRender /\ NoCompile /\ NoBuild

FairSpec ==
    /\ FairInit /\ [][Next]_vars
    /\ \A t \in Threads : WF_vars(Step(t)) /\ SF_vars(lock_acquire(t))

\* Callers that ask for one name only, through get_template(name) and
\* Engine.render(name), and never evict it.
Shared == "a"

SharedCalls(t) ==
    \/ get_template(t, Shared, NoOpts)
    \/ \E ctx \in Contexts : render(t, Shared, ctx)

SharedStep(t) ==
    \/ lock_acquire(t)
    \/ lock_release(t)
    \/ get_template_lookup(t)
    \/ compile_template_build(t)
    \/ compile_template_put_templates(t)
    \/ compile_template_put_renders(t)
    \/ render_try(t)
    \/ render_second(t)
    \/ routine_return(t)
    \/ routine_require(t)

SharedNext == \E t \in Threads : SharedCalls(t) \/ SharedStep(t)

SharedSpec == Init /\ [][SharedNext]_vars

\* ================================================= extends and def blocks
\* ------------------------------------------------------ the parsed templates
\* A sub-token of an out node. A markup's value says which template it stands
\* in and what it reads; a var's expression is a call of a def, either by its
\* name ("local") or as super_defs['name']() ("super").
NoValue == [tpl |-> 0, text |-> ""]
Markup(i, text) ==
    [tok |-> "markup", call |-> "", name |-> "", value |-> [tpl |-> i, text |-> text]]
Var(how, name) ==
    [tok |-> "var", call |-> how, name |-> name, value |-> NoValue]

\* %include("inc"): the template a base may include. It is not one of the
\* chain, so its number is past the longest chain.
Included == MaxChain + 1
Include ==
    [tok |-> "include", call |-> "", name |-> "", value |-> [tpl |-> Included, text |-> "inc"]]

\* The nodes parse_iter yields: the token, its value (the name a def defines,
\* the template an extends names), its child nodes, and an out's sub-tokens.
Node(tok, name, ext, nodes, sub) ==
    [tok |-> tok, name |-> name, ext |-> ext, nodes |-> nodes, sub |-> sub]
Out(sub) == Node("out", "", 0, <<>>, sub)
End == Node("end", "", 0, <<>>, <<>>)
Extends(parent, nodes) == Node("extends", "", parent, nodes, <<>>)

\* %def name(): with the body "text", or "text{{ super_defs['name']() }}".
Def(i, name, how) ==
    Node("def", name, 0,
         <<Out(IF how = "super" THEN <<Markup(i, name), Var("super", name)>>
                                ELSE <<Markup(i, name)>>),
           End>>,
         <<>>)

BlockNames == {"block_a", "block_b"}

\* What a template that extends another holds after its %extends line.
DerivedKinds == {"nothing", "a", "a_super", "b", "a_b", "markup_a"}
DerivedBody(i, kind) ==
    CASE kind = "nothing" -> <<>>
      [] kind = "a" -> <<Def(i, "block_a", "plain")>>
      [] kind = "a_super" -> <<Def(i, "block_a", "super")>>
      [] kind = "b" -> <<Def(i, "block_b", "plain")>>
      [] kind = "a_b" -> <<Def(i, "block_a", "plain"), Def(i, "block_b", "plain")>>
      [] kind = "markup_a" -> <<Out(<<Markup(i, "m")>>), Def(i, "block_a", "plain")>>

\* What a base template is made of, in source order.
BaseItems(i) ==
    { Def(i, "block_a", "plain"), Def(i, "block_b", "plain"),
      Out(<<Var("local", "block_a")>>), Out(<<Var("super", "block_a")>>),
      Out(<<Markup(i, "m")>>), Out(<<Include>>) }

\* parse_iter gathers consecutive markup/var tokens into one out node.
RECURSIVE Gather(_)
Gather(items) ==
    IF Len(items) < 2 THEN items
    ELSE LET rest == Gather(Tail(items)) IN
         IF Head(items).tok = "out" /\ Head(rest).tok = "out"
         THEN <<Out(Head(items).sub \o Head(rest).sub)>> \o Tail(rest)
         ELSE <<Head(items)>> \o rest

SeqsUpTo(S, n) == UNION {[1..k -> S] : k \in 0..n}

\* A chain: every template but the last extends the next one; d says what
\* each of those holds and b is the base, in source order.
Chain(n, d, b) ==
    [i \in 1..n |-> IF i < n THEN <<Extends(i + 1, DerivedBody(i, d[i]))>> ELSE Gather(b)]

\* The included template defines block_a and calls it by its name:
\*     %def block_a(): ... %end / {{ block_a() }}
IncludedNodes == <<Def(Included, "block_a", "plain"), Out(<<Var("local", "block_a")>>)>>

\* The nodes load_and_parse gives for a template.
NodesOf(t) == IF t = Included THEN IncludedNodes ELSE chain[t]

\* ------------------------------------------------- what BlockBuilder emits
\* One statement of a generated function.
Stmt(op, name, ext, value, code) ==
    [op |-> op, name |-> name, ext |-> ext, value |-> value, code |-> code]
writer_declare == Stmt("declare", "", 0, NoValue, <<>>)
writer_return == Stmt("return_join", "", 0, NoValue, <<>>)
ReturnConst(value) == Stmt("return_const", "", 0, value, <<>>)

\* w(repr(markup)), w(str(expression)), w(_r(included, ctx, local_defs,
\* super_defs)); an empty markup writes nothing.
build_out(sub) ==
    LET out == SelectSeq(sub, LAMBDA x : x.tok = "var" \/ x.value # NoValue) IN
    [k \in 1..Len(out) |->
        CASE out[k].tok = "var" ->
               Stmt(IF out[k].call = "super" THEN "w_super" ELSE "w_local",
                    out[k].name, 0, NoValue, <<>>)
          [] out[k].tok = "include" -> Stmt("w_r", "", out[k].value.tpl, NoValue, <<>>)
          [] OTHER -> Stmt("w", "", 0, out[k].value, <<>>)]

\* The function a def makes. Its nodes are an out node and the end, so the
\* body is "return 'markup'" when the out is one markup, and a writer otherwise.
DefBody(nodes) ==
    IF Len(nodes) = 1 THEN <<ReturnConst(NoValue)>>
    ELSE IF Len(nodes) = 2 /\ nodes[1].tok = "out" /\ Len(nodes[1].sub) = 1
            /\ nodes[1].sub[1].tok = "markup"
         THEN <<ReturnConst(nodes[1].sub[1].value)>>
         ELSE <<writer_declare>> \o build_out(nodes[1].sub) \o <<writer_return>>

\* def name(): body, then the setdefs line for name.
build_def(node) == <<Stmt("def", node.name, 0, NoValue, DefBody(node.nodes))>>

build_token(node) ==
    CASE node.tok = "def" -> build_def(node)
      [] node.tok = "out" -> build_out(node.sub)
      [] OTHER -> <<>>

RECURSIVE build_block(_)
build_block(nodes) ==
    IF nodes = <<>> THEN <<>>
    ELSE build_token(Head(nodes)) \o build_block(Tail(nodes))

\* The render function of a template.
build_render(nodes) ==
    IF nodes = <<>> THEN <<ReturnConst(NoValue)>>
    ELSE IF Len(nodes) < 3 /\ nodes[Len(nodes)].tok = "extends"
    THEN LET e == nodes[Len(nodes)] IN
         build_block(SelectSeq(e.nodes, LAMBDA n : n.tok \in {"def", "require"}))
           \o <<Stmt("return_r", "", e.ext, NoValue, <<>>)>>
    ELSE IF Len(nodes) = 1 /\ nodes[1].tok = "out" /\ Len(nodes[1].sub) = 1
            /\ nodes[1].sub[1].tok = "markup"
    THEN <<ReturnConst(nodes[1].sub[1].value)>>
    ELSE <<writer_declare>> \o build_block(nodes) \o <<writer_return>>

\* --------------------------------------------------- running the functions
\* A setdefs that assigns local_defs['name'] instead of using setdefault.
setdefs_assign(name, f, locals, ld, sd) ==
    [locals |-> Put(locals, name, f), ld |-> Put(ld, name, f), sd |-> Put(sd, name, f)]

\* A setdefs that uses setdefault for super_defs['name'] as well.
setdefs_keep_super(name, f, locals, ld, sd) ==
    LET kept == IF name \in DOMAIN ld THEN ld ELSE Put(ld, name, f) IN
    [locals |-> Put(locals, name, kept[name]), ld |-> kept,
     sd |-> IF name \in DOMAIN sd THEN sd ELSE Put(sd, name, f)]

\* The line build_def adds after a def:
\*     super_defs['name'] = name; name = local_defs.setdefault('name', name)
\* f is the function the def has just bound to name.
setdefs(name, f, locals, ld, sd) ==
    LET kept == IF name \in DOMAIN ld THEN ld ELSE Put(ld, name, f) IN
    [locals |-> Put(locals, name, kept[name]), ld |-> kept, sd |-> Put(sd, name, f)]

\* A running function: a template's render function or a def's function.
RFrame(kind, tpl, name, code, retried) ==
    [kind |-> kind, tpl |-> tpl, name |-> name, code |-> code, ip |-> 1,
     locals |-> EmptyMap, b |-> <<>>, retried |-> retried]

RTop == rframes[Len(rframes)]
RNow == RTop.code[RTop.ip]
RAt(op) == result.status = "running" /\ rframes # <<>> /\ RNow.op = op
RSetTop(f) == [rframes EXCEPT ![Len(rframes)] = f]
RFront(fs) == SubSeq(fs, 1, Len(fs) - 1)
RRet(v) == [k |-> "ret", v |-> v, e |-> ""]
RExc(e) == [k |-> "exc", v |-> <<>>, e |-> e]
Running == [status |-> "running", value |-> <<>>]

\* Engine.render(parent, ctx, local_defs, super_defs), as "return _r(...)" calls
\* it: the parent's routine on the same two tables. With the routine in
\* renders the call is inside the try, so a KeyError compiles and calls again.
RenderCall(tpl, cached) ==
    RFrame("render", tpl, "", build_render(NodesOf(tpl)), ~cached)

\* Hand a return value or an exception to the caller of the function that ended.
\* What an include returns is written, and the try of that call is over.
RECURSIVE RDeliver(_, _)
RDeliver(fs, r) ==
    IF fs = <<>>
    THEN [fs |-> <<>>,
          result |-> [status |-> IF r.k = "ret" THEN "done" ELSE r.e, value |-> r.v]]
    ELSE LET f == fs[Len(fs)]
             s == f.code[f.ip] IN
         CASE r.k = "ret" /\ s.op \in {"w_local", "w_super"} ->
                [fs |-> [fs EXCEPT ![Len(fs)] = [f EXCEPT !.b = @ \o r.v, !.ip = @ + 1]],
                 result |-> Running]
           [] r.k = "ret" /\ s.op = "w_r" ->
                [fs |-> [fs EXCEPT ![Len(fs)] =
                            [f EXCEPT !.b = @ \o r.v, !.ip = @ + 1, !.retried = TRUE]],
                 result |-> Running]
           [] r.k = "exc" /\ r.e = "KeyError" /\ s.op \in {"return_r", "w_r"} /\ ~f.retried ->
                [fs |-> Append([fs EXCEPT ![Len(fs)] = [f EXCEPT !.retried = TRUE]],
                               RFrame("render", s.ext, "", build_render(NodesOf(s.ext)), TRUE)),
                 result |-> Running]
           [] OTHER -> RDeliver(RFront(fs), r)

RFinish(r) ==
    LET d == RDeliver(RFront(rframes), r) IN
    /\ rframes' = d.fs
    /\ result' = d.result

\* Call the function g of a def; one that is already running never returns.
CallDef(g, how) ==
    /\ calls' = calls \cup {[by |-> RTop.tpl, from |-> RTop.kind, via |-> how,
                             name |-> g.name, owner |-> g.tpl]}
    /\ IF \E k \in 1..Len(rframes) :
            rframes[k].kind = "def" /\ rframes[k].tpl = g.tpl /\ rframes[k].name = g.name
       THEN RFinish(RExc("RecursionError"))
       ELSE /\ rframes' = Append(rframes, RFrame("def", g.tpl, g.name, g.code, TRUE))
            /\ UNCHANGED result

\* _b = []; w = _b.append
exec_declare ==
    /\ RAt("declare")
    /\ rframes' = RSetTop([RTop EXCEPT !.b = <<>>, !.ip = @ + 1])
    /\ UNCHANGED <<chain, defined, local_defs, super_defs, result, calls>>
    /\ UNCHANGED <<engineVars, compileVars, buildVars>>

\* def name(): ... and its setdefs line
exec_def ==
    /\ RAt("def")
    /\ LET g == [tpl |-> RTop.tpl, name |-> RNow.name, code |-> RNow.code]
           s == setdefs(RNow.name, g, RTop.locals, local_defs, super_defs) IN
       /\ rframes' = RSetTop([RTop EXCEPT !.locals = s.locals, !.ip = @ + 1])
       /\ local_defs' = s.ld
       /\ super_defs' = s.sd
       /\ defined' = Append(defined, [tpl |-> g.tpl, name |-> g.name])
    /\ UNCHANGED <<chain, result, calls>>
    /\ UNCHANGED <<engineVars, compileVars, buildVars>>

\* w('markup')
exec_w ==
    /\ RAt("w")
    /\ rframes' = RSetTop([RTop EXCEPT !.b = Append(@, RNow.value), !.ip = @ + 1])
    /\ UNCHANGED <<chain, defined, local_defs, super_defs, result, calls>>
    /\ UNCHANGED <<engineVars, compileVars, buildVars>>

\* w(str(name())): name is a local of the render function, bound by its def.
exec_w_local ==
    /\ RAt("w_local")
    /\ IF RNow.name \in DOMAIN RTop.locals
       THEN CallDef(RTop.locals[RNow.name], "local")
       ELSE RFinish(RExc("NameError")) /\ UNCHANGED calls
    /\ UNCHANGED <<chain, defined, local_defs, super_defs>>
    /\ UNCHANGED <<engineVars, compileVars, buildVars>>

\* w(str(super_defs['name']()))
exec_w_super ==
    /\ RAt("w_super")
    /\ IF RNow.name \in DOMAIN super_defs
       THEN CallDef(super_defs[RNow.name], "super")
       ELSE RFinish(RExc("KeyError")) /\ UNCHANGED calls
    /\ UNCHANGED <<chain, defined, local_defs, super_defs>>
    /\ UNCHANGED <<engineVars, compileVars, buildVars>>

\* return _r(parent, ctx, local_defs, super_defs)
exec_return_r ==
    /\ RAt("return_r")
    /\ \E cached \in BOOLEAN :
         rframes' = Append(rframes, RenderCall(RNow.ext, cached))
    /\ UNCHANGED <<chain, defined, local_defs, super_defs, result, calls>>
    /\ UNCHANGED <<engineVars, compileVars, buildVars>>

\* w(_r("inc", ctx, local_defs, super_defs)): Engine.render of the included
\* template on the same two tables; what it returns is written.
exec_w_r ==
    /\ RAt("w_r")
    /\ \E cached \in BOOLEAN :
         rframes' = Append(RSetTop([RTop EXCEPT !.retried = ~cached]),
                           RenderCall(RNow.ext, cached))
    /\ UNCHANGED <<chain, defined, local_defs, super_defs, result, calls>>
    /\ UNCHANGED <<engineVars, compileVars, buildVars>>

\* return "".join(_b), return 'markup'
exec_return ==
    /\ RAt("return_join") \/ RAt("return_const")
    /\ RFinish(RRet(IF RNow.op = "return_join" THEN RTop.b
                    ELSE IF RNow.value = NoValue THEN <<>> ELSE <<RNow.value>>))
    /\ UNCHANGED <<chain, defined, local_defs, super_defs, calls>>
    /\ UNCHANGED <<engineVars, compileVars, buildVars>>

\* Template.render(ctx) of the first template of a chain, on a new Engine.
RenderInit ==
    /\ NewEngine
    /\ budget = 0
    /\ \E n \in 1..MaxChain :
         \E d \in [1..(n - 1) -> DerivedKinds], b \in SeqsUpTo(BaseItems(n), MaxItems) :
             chain = Chain(n, d, b)
    /\ rframes = <<RFrame("render", 1, "", build_render(chain[1]), TRUE)>>
    /\ local_defs = EmptyMap
    /\ super_defs = EmptyMap
    /\ result = Running
    /\ calls = {}
    /\ defined = <<>>
    /\ NoCompile
    /\ NoBuild

RenderNext ==
    \/ exec_declare
    \/ exec_def
    \/ exec_w
    \/ exec_w_local
    \/ exec_w_super
    \/ exec_return_r
    \/ exec_w_r
    \/ exec_return

RenderSpec == RenderInit /\ [][RenderNext]_vars

\* ======================================================= one compilation
\* ------------------------------------------------------------ the tokens
\* Text is a sequence of characters. The value of the end that end_continue
\* makes up is None.
None == <<"<None>">>
COMPOUND_TOKENS == {"extends", "def", "compound"}
OUT_TOKENS == {"markup", "var", "include"}

\* A token (lineno, token, value); as a node it also has the nodes it holds.
Token(line, token, value) ==
    [lineno |-> line, token |-> token, value |-> value, nodes |-> <<>>]
PNode(line, token, value, nodes) ==
    [lineno |-> line, token |-> token, value |-> value, nodes |-> nodes]

\* The kinds of token of a stream given to the parser as it is, each with the
\* text such a token carries.
TokenKinds ==
    {"markup", "compound", "continue", "end", "def", "extends", "statement"}
TextOf(kind) ==
    CASE kind = "markup" -> <<"a", "\n">>
      [] kind = "compound" -> <<"f">>
      [] kind = "continue" -> <<"l">>
      [] kind = "end" -> <<"e">>
      [] kind = "def" -> <<"d">>
      [] kind = "extends" -> <<"x">>
      [] OTHER -> <<"s">>

\* The stream of the kinds ks, one token a line.
StreamOf(ks) == [i \in 1..Len(ks) |-> Token(i, ks[i], TextOf(ks[i]))]

\* An end_continue that makes a compound of a continue token and puts no end
\* before it.
RECURSIVE end_continue_no_end(_)
end_continue_no_end(ts) ==
    IF ts = <<>> THEN <<>>
    ELSE LET t == Head(ts) IN
         <<IF t.token = "continue" THEN Token(t.lineno, "compound", t.value) ELSE t>>
           \o end_continue_no_end(Tail(ts))

\* Parser.end_continue: a continue token becomes an end and a compound.
RECURSIVE end_continue(_)
end_continue(ts) ==
    IF ts = <<>> THEN <<>>
    ELSE LET t == Head(ts) IN
         (IF t.token = "continue"
          THEN <<Token(t.lineno, "end", None), Token(t.lineno, "compound", t.value)>>
          ELSE <<t>>) \o end_continue(Tail(ts))

\* Parser.parse_iter on the tokens from position p on (all calls read the one
\* iterator): the nodes yielded, the position reached, and the line of the
\* missing-end error if it is raised (0: none). operands are the out tokens
\* gathered and acc the nodes yielded so far.
Flush(acc, operands) ==
    IF operands = <<>> THEN acc ELSE Append(acc, PNode(operands[1].lineno, "out", <<>>, operands))

RECURSIVE parse_iter(_, _, _, _)
parse_iter(ts, p, operands, acc) ==
    IF p > Len(ts) THEN [nodes |-> Flush(acc, operands), pos |-> p, err |-> 0]
    ELSE LET t == ts[p] IN
      IF t.token \in OUT_TOKENS THEN parse_iter(ts, p + 1, Append(operands, t), acc)
      ELSE IF t.token \in COMPOUND_TOKENS
      THEN LET vals == parse_iter(ts, p + 1, <<>>, <<>>) IN
           IF vals.err # 0 THEN vals
           ELSE IF t.token # "extends" /\ vals.nodes # <<>>
                   /\ vals.nodes[Len(vals.nodes)].token # "end"
           THEN [nodes |-> <<>>, pos |-> vals.pos,
                 err |-> vals.nodes[Len(vals.nodes)].lineno]
           ELSE parse_iter(ts, vals.pos, <<>>,
                           Append(Flush(acc, operands),
                                  PNode(t.lineno, t.token, t.value, vals.nodes)))
      ELSE IF t.token = "end"
      THEN [nodes |-> Append(Flush(acc, operands), t), pos |-> p + 1, err |-> 0]
      ELSE parse_iter(ts, p + 1, <<>>, Append(Flush(acc, operands), t))

\* ------------------------------------------------------------- the lexer
\* A source is a sequence of characters. \w, \s and the space of " *".
WordChars ==
    {"a", "b", "c", "d", "e", "f", "g", "h", "i", "j", "k", "l", "m", "n", "o",
     "p", "q", "r", "s", "t", "u", "v", "w", "x", "y", "z", "_", "0", "1", "2", "3"}
Whitespace == {" ", "\n", "\r", "\t"}

\* The character at index i of s, "" past either end of s.
CharAt(s, i) == IF i \in 1..Len(s) THEN s[i] ELSE ""
Least(S) == CHOOSE x \in S : \A y \in S : x <= y
\* The first index from i on where s has no character of the set cs.
SkipOver(s, i, cs) == Least({j \in i..(Len(s) + 1) : CharAt(s, j) \notin cs})
Piece(s, i, j) == IF i > j THEN <<>> ELSE SubSeq(s, i, j)

\* str.strip(), str.rstrip()
rstrip(s) ==
    LET keep == {j \in 1..Len(s) : s[j] \notin Whitespace} IN
    IF keep = {} THEN <<>> ELSE SubSeq(s, 1, CHOOSE j \in keep : \A k \in keep : k <= j)
strip(s) ==
    LET keep == {j \in 1..Len(s) : s[j] \notin Whitespace} IN
    IF keep = {} THEN <<>> ELSE SubSeq(rstrip(s), Least(keep), Len(rstrip(s)))

\* source.replace('\r\n', '\n')
RECURSIVE replace_crlf(_)
replace_crlf(s) ==
    IF s = <<>> THEN <<>>
    ELSE IF Len(s) >= 2 /\ s[1] = "\r" /\ s[2] = "\n"
         THEN <<"\n">> \o replace_crlf(SubSeq(s, 3, Len(s)))
         ELSE <<s[1]>> \o replace_crlf(Tail(s))

\* line_join_sub('', s): every backslash that a newline follows goes, with it.
RECURSIVE line_join_sub(_)
line_join_sub(s) ==
    IF s = <<>> THEN <<>>
    ELSE IF Len(s) >= 2 /\ s[1] = "\\" /\ s[2] = "\n"
         THEN line_join_sub(SubSeq(s, 3, Len(s)))
         ELSE <<s[1]>> \o line_join_sub(Tail(s))

\* TOKENS: the token of the word a statement begins with.
EndWords == {<<"e", "n", "d", "f", "o", "r">>, <<"e", "n", "d", "i", "f">>, <<"e", "n", "d", "w", "h", "i", "l", "e">>, <<"e", "n", "d", "w", "i", "t", "h">>, <<"e", "n", "d", "t", "r", "y">>, <<"e", "n", "d", "c", "l", "a", "s", "s">>, <<"e", "n", "d", "d", "e", "f">>}
CompoundWords == {<<"f", "o", "r">>, <<"i", "f">>, <<"w", "h", "i", "l", "e">>, <<"w", "i", "t", "h">>, <<"t", "r", "y">>, <<"c", "l", "a", "s", "s">>}
ContinueWords == {<<"e", "l", "s", "e">>, <<"e", "l", "i", "f">>, <<"e", "x", "c", "e", "p", "t">>, <<"f", "i", "n", "a", "l", "l", "y">>}
TOKENS(w) ==
    CASE w \in EndWords -> "end"
      [] w \in CompoundWords -> "compound"
      [] w \in ContinueWords -> "continue"
      [] w = <<"e", "x", "t", "e", "n", "d", "s">> -> "extends"
      [] w = <<"r", "e", "q", "u", "i", "r", "e">> -> "require"
      [] w = <<"i", "n", "c", "l", "u", "d", "e">> -> "include"
      [] w = <<"i", "m", "p", "o", "r", "t">> -> "import"
      [] w = <<"f", "r", "o", "m">> -> "from"
      [] w = <<"d", "e", "f">> -> "def"
      [] w = <<"e", "n", "d">> -> "end"
      [] w = <<"#">> -> "#"
      [] OTHER -> "statement"

NoMatch == [ok |-> FALSE, end |-> 0, g1 |-> <<>>, g2 |-> <<>>]
Match(e, g1, g2) == [ok |-> TRUE, end |-> e, g1 |-> g1, g2 |-> g2]

\* stmt_match(source, pos), i being the index of source[pos]:
\*     ' *%(?!%) *(#|\w+ ?)? *(.*?)(?<!\\)(?:\n|$)'
\* end is the index of the character after the match.
stmt_match(s, i) ==
    LET a == SkipOver(s, i, {" "})
        b == SkipOver(s, a + 1, {" "})
        w == SkipOver(s, b, WordChars)
        c == IF CharAt(s, b) = "#" THEN b + 1
             ELSE IF w > b THEN (IF CharAt(s, w) = " " THEN w + 1 ELSE w)
             ELSE b
        d == SkipOver(s, c, {" "})
        ends == {q \in d..(Len(s) + 1) : CharAt(s, q) \in {"\n", ""} /\ CharAt(s, q - 1) # "\\"}
        q == Least(ends) IN
    IF CharAt(s, a) = "%" /\ CharAt(s, a + 1) # "%" /\ ends # {}
    THEN Match(IF q <= Len(s) THEN q + 1 ELSE q, Piece(s, b, c - 1), Piece(s, d, q - 1))
    ELSE NoMatch

\* var_match(source, pos): '{{\s*(.*?)\s*}}'
var_match(s, i) ==
    LET closes == {q \in (i + 2)..Len(s) : CharAt(s, q) = "}" /\ CharAt(s, q + 1) = "}"}
        q == Least(closes) IN
    IF CharAt(s, i) = "{" /\ CharAt(s, i + 1) = "{" /\ closes # {}
    THEN Match(q + 2, strip(Piece(s, i + 2, q - 1)), <<>>)
    ELSE NoMatch

\* markup_match(source, pos): '.*?(?:(?={{)|\n(?= *%[^%]))|.+'
markup_match(s, i) ==
    LET var_at(q) == CharAt(s, q) = "{" /\ CharAt(s, q + 1) = "{"
        stmt_after(q) ==
            LET p == SkipOver(s, q + 1, {" "}) IN
            CharAt(s, q) = "\n" /\ CharAt(s, p) = "%" /\ CharAt(s, p + 1) \notin {"%", ""}
        stops == {q \in i..Len(s) : var_at(q) \/ stmt_after(q)}
        q == Least(stops)
        e == IF stops = {} THEN Len(s) + 1 ELSE IF var_at(q) THEN q ELSE q + 1 IN
    IF i <= Len(s) THEN Match(e, Piece(s, i, e - 1), <<>>) ELSE NoMatch

\* _s(r'\1', s) of mtok: '(\n *%)%' loses its second %.
RECURSIVE escaped_token_sub(_)
escaped_token_sub(s) ==
    IF s = <<>> THEN <<>>
    ELSE LET p == SkipOver(s, 2, {" "}) IN
         IF s[1] = "\n" /\ CharAt(s, p) = "%" /\ CharAt(s, p + 1) = "%"
         THEN SubSeq(s, 1, p) \o escaped_token_sub(SubSeq(s, p + 2, Len(s)))
         ELSE <<s[1]>> \o escaped_token_sub(Tail(s))

\* re.search(r'\(\s*(.*?)\s*\)', stmt): what the first parentheses hold.
paren_search(stmt) ==
    LET opens == {j \in 1..Len(stmt) : stmt[j] = "("}
        o == Least(opens)
        closes == {j \in (o + 1)..Len(stmt) : stmt[j] = ")"} IN
    IF opens = {} \/ closes = {} THEN NoMatch
    ELSE Match(Least(closes) + 1, strip(Piece(stmt, o + 1, Least(closes) - 1)), <<>>)

\* re.findall(r'([^\s,]+)[\s,]*', stmt): the names of a require.
RECURSIVE findall_names(_)
findall_names(s) ==
    LET seps == Whitespace \cup {","}
        a == SkipOver(s, 1, seps)
        b == Least({j \in a..(Len(s) + 1) : CharAt(s, j) \in seps \cup {""}}) IN
    IF a > Len(s) THEN <<>>
    ELSE <<SubSeq(s, a, b - 1)>> \o findall_names(Piece(s, b, Len(s)))

\* What a rule returns: nothing, a raised error, or (npos, token, value) with
\* npos the index of the character tokenizing goes on from.
NoToken == [ok |-> FALSE, error |-> "none", npos |-> 0, token |-> "", value |-> <<>>]
Raised(e) == [NoToken EXCEPT !.error = e]
Found(npos, token, value) ==
    [ok |-> TRUE, error |-> "none", npos |-> npos, token |-> token, value |-> value]

stmt_token(s, i) ==
    LET m == stmt_match(s, i)
        stmt == m.g1 \o line_join_sub(m.g2)
        token == TOKENS(rstrip(m.g1))
        found == paren_search(stmt) IN
    IF ~m.ok \/ (i > 1 /\ s[i - 1] # "\n") THEN NoToken
    ELSE IF token \notin {"require", "include", "extends"} THEN Found(m.end, token, stmt)
    ELSE IF ~found.ok THEN Raised("AttributeError")
    ELSE Found(m.end, token, IF token = "require" THEN findall_names(found.g1) ELSE found.g1)

var_token(s, i) ==
    LET m == var_match(s, i) IN
    IF m.ok THEN Found(m.end, "var", line_join_sub(m.g1)) ELSE NoToken

\* An mtok that takes [1:] of the matched text itself.
mtok_first_dropped(s, i) ==
    LET m == markup_match(s, i) IN
    IF m.ok
    THEN Found(m.end, "markup",
               line_join_sub(Piece(escaped_token_sub(m.g1), 2, Len(escaped_token_sub(m.g1)))))
    ELSE NoToken

mtok(s, i) ==
    LET m == markup_match(s, i) IN
    IF m.ok
    THEN Found(m.end, "markup",
               line_join_sub(Tail(escaped_token_sub(<<IF i > 1 THEN s[i - 1] ELSE "\n">> \o m.g1))))
    ELSE NoToken

\* The first rule of [stmt_token, var_token, mtok] that returns something.
first_rule(s, i) ==
    IF stmt_token(s, i) # NoToken THEN stmt_token(s, i)
    ELSE IF var_token(s, i) # NoToken THEN var_token(s, i)
    ELSE mtok(s, i)

\* ------------------------------------------------------------ the stages
NoFailure == [error |-> "none", line |-> 0]
Fail(e, line) ==
    /\ phase' = "failed"
    /\ failure' = [error |-> e, line |-> line]

\* A Loader.load that gives no identifier with a text that was given.
Loader_load_anonymous(name, source, stored) ==
    IF stored = "given" THEN [error |-> "none", path |-> Null, text |-> source]
    ELSE IF stored = "templates" THEN [error |-> "none", path |-> name, text |-> source]
    ELSE IF name = Null THEN [error |-> "TypeError", path |-> Null, text |-> <<>>]
    ELSE IF stored = "file"
    THEN [error |-> "none", path |-> <<"templates", name>>, text |-> source]
    ELSE [error |-> "IOError", path |-> Null, text |-> <<>>]

\* Loader.load(name, source): the text given, else the text Loader.templates
\* has for the name, else the file of that name in the template folder.
Loader_load(name, source, stored) ==
    IF stored = "given" THEN [error |-> "none", path |-> name, text |-> source]
    ELSE IF stored = "templates" THEN [error |-> "none", path |-> name, text |-> source]
    ELSE IF name = Null THEN [error |-> "TypeError", path |-> Null, text |-> <<>>]
    ELSE IF stored = "file"
    THEN [error |-> "none", path |-> <<"templates", name>>, text |-> source]
    ELSE [error |-> "IOError", path |-> Null, text |-> <<>>]

\* load_and_parse: self.loader.load(name, **kwargs)
do_load ==
    /\ phase = "request"
    /\ LET r == Loader_load(request.name, request.source, request.stored) IN
       IF r.error = "none"
       THEN /\ loaded' = [path |-> r.path, text |-> r.text]
            /\ phase' = "source"
            /\ UNCHANGED failure
       ELSE /\ Fail(r.error, 0)
            /\ UNCHANGED loaded
    /\ UNCHANGED <<request, pos, lineno, tokens, tree, built, written>>
    /\ UNCHANGED <<engineVars, renderVars, buildVars>>

\* tokenize up to its loop: source = source.replace('\r\n', '\n') is the text
\* the loop reads, pos = 0, lineno = 1, no token yet.
Source == replace_crlf(loaded.text)
tokenize_begin ==
    /\ phase = "source"
    /\ pos' = 0
    /\ lineno' = 1
    /\ tokens' = <<>>
    /\ phase' = "lexing"
    /\ UNCHANGED <<request, loaded, tree, built, written, failure>>
    /\ UNCHANGED <<engineVars, renderVars, buildVars>>

Newlines(s) == Cardinality({j \in 1..Len(s) : s[j] = "\n"})

\* A turn of the loop that sets lineno to the newlines of the token alone.
tokenize_rule_line_reset ==
    /\ phase = "lexing"
    /\ pos < Len(Source)
    /\ LET rv == first_rule(Source, pos + 1)
           npos == rv.npos - 1 IN
       IF rv.error # "none"
       THEN Fail(rv.error, lineno) /\ UNCHANGED <<pos, lineno, tokens>>
       ELSE IF ~rv.ok
       THEN Fail("Lexer pattern mismatch", lineno) /\ UNCHANGED <<pos, lineno, tokens>>
       ELSE IF ~(npos > pos)
       THEN Fail("AssertionError", lineno) /\ UNCHANGED <<pos, lineno, tokens>>
       ELSE /\ tokens' = Append(tokens, Token(lineno, rv.token, rv.value))
            /\ lineno' = 1 + Newlines(Piece(Source, pos + 1, npos))
            /\ pos' = npos
            /\ UNCHANGED <<phase, failure>>
    /\ UNCHANGED <<request, loaded, tree, built, written>>
    /\ UNCHANGED <<engineVars, renderVars, buildVars>>

\* One turn of the loop of tokenize: the first rule that returns something
\* gives the token, and the position has to have moved.
tokenize_rule ==
    /\ phase = "lexing"
    /\ pos < Len(Source)
    /\ LET rv == first_rule(Source, pos + 1)
           npos == rv.npos - 1 IN
       IF rv.error # "none"
       THEN Fail(rv.error, lineno) /\ UNCHANGED <<pos, lineno, tokens>>
       ELSE IF ~rv.ok
       THEN Fail("Lexer pattern mismatch", lineno) /\ UNCHANGED <<pos, lineno, tokens>>
       ELSE IF ~(npos > pos)
       THEN Fail("AssertionError", lineno) /\ UNCHANGED <<pos, lineno, tokens>>
       ELSE /\ tokens' = Append(tokens, Token(lineno, rv.token, rv.value))
            /\ lineno' = lineno + Newlines(Piece(Source, pos + 1, npos))
            /\ pos' = npos
            /\ UNCHANGED <<phase, failure>>
    /\ UNCHANGED <<request, loaded, tree, built, written>>
    /\ UNCHANGED <<engineVars, renderVars, buildVars>>

\* while pos < end is over: return tokens
tokenize_return ==
    /\ phase = "lexing"
    /\ ~(pos < Len(Source))
    /\ phase' = "tokens"
    /\ UNCHANGED <<request, loaded, pos, lineno, tokens, tree, built, written, failure>>
    /\ UNCHANGED <<engineVars, renderVars, buildVars>>

\* load_and_parse: self.parser.end_continue(tokens)
do_end_continue ==
    /\ phase = "tokens"
    /\ tokens' = end_continue(tokens)
    /\ phase' = "stream"
    /\ UNCHANGED <<request, loaded, pos, lineno, tree, built, written, failure>>
    /\ UNCHANGED <<engineVars, renderVars, buildVars>>

\* compile_template: list(nodes), which runs parse_iter over the stream
do_parse_iter ==
    /\ phase = "stream"
    /\ LET r == parse_iter(tokens, 1, <<>>, <<>>) IN
       IF r.err = 0
       THEN /\ tree' = r.nodes
            /\ phase' = "nodes"
            /\ UNCHANGED failure
       ELSE /\ Fail("Missing end", r.err)
            /\ UNCHANGED tree
    /\ UNCHANGED <<request, loaded, pos, lineno, tokens, built, written>>
    /\ UNCHANGED <<engineVars, renderVars, buildVars>>

\* ------------------------------------------- what BlockBuilder makes of it
\* One statement of the function built from the nodes of a source: what it
\* does, its text (a markup's value, an expression, a statement), the names of
\* a require, and the statements under a compound or def.
Line(op, text, names, body, error) ==
    [op |-> op, text |-> text, names |-> names, body |-> body, error |-> error]
Raise(e) == Line("raise", <<>>, <<>>, <<>>, e)
Plain(op, text) == Line(op, text, <<>>, <<>>, "none")
Block(op, text, body) == Line(op, text, <<>>, body, "none")

\* value.split('|')
RECURSIVE split(_, _)
split(s, sep) ==
    LET at == {j \in 1..Len(s) : s[j] = sep} IN
    IF at = {} THEN <<s>>
    ELSE <<Piece(s, 1, Least(at) - 1)>> \o split(Piece(s, Least(at) + 1, Len(s)), sep)

\* BlockBuilder.filters = {'e': 'escape'}: self.filters.get(f, f)
Escape == <<"e", "s", "c", "a", "p", "e">>
filters_get(f) == IF f = <<"e">> THEN Escape ELSE f

\* value = f + '(' + value + ')' for f in filters
RECURSIVE wrap(_, _)
wrap(value, fs) ==
    IF fs = <<>> THEN value
    ELSE wrap(filters_get(Head(fs)) \o <<"(">> \o value \o <<")">>, Tail(fs))

\* A build_out_var that takes a last 'n' for one more filter.
build_out_var_keep_n(value, default_filters) ==
    LET parts == [k \in 1..Len(split(value, "|")) |-> strip(split(value, "|")[k])] IN
    wrap(Head(parts), Tail(parts) \o default_filters)

\* build_out, the var branch: the expression written for the value of a var
\* token under the default filters of the compilation.
build_out_var(value, default_filters) ==
    LET parts == [k \in 1..Len(split(value, "|")) |-> strip(split(value, "|")[k])]
        fs == Tail(parts) IN
    wrap(Head(parts),
         IF fs # <<>> /\ fs[Len(fs)] = <<"n">> THEN SubSeq(fs, 1, Len(fs) - 1)
         ELSE fs \o default_filters)

\* build_out: one w(...) for each sub-token whose value is not empty.
RECURSIVE code_out(_, _)
code_out(sub, default_filters) ==
    IF sub = <<>> THEN <<>>
    ELSE LET t == Head(sub)
             value == IF t.token = "var" THEN build_out_var(t.value, default_filters)
                      ELSE t.value
             op == CASE t.token = "include" -> "w_include"
                     [] t.token = "var" -> "w"
                     [] OTHER -> "w_text" IN
         (IF value = <<>> /\ t.token # "include" THEN <<>> ELSE <<Plain(op, value)>>)
           \o code_out(Tail(sub), default_filters)

\* build_require: the names that are not local variables yet are bound.
code_require(names, local_vars) ==
    <<Line("require", <<>>, SelectSeq(names, LAMBDA v : v \notin local_vars), <<>>, "none")>>

\* The rules by token; a token with no rule fails the assertion of build_token.
\* local_vars are the names the requires so far have made local.
RECURSIVE code_block(_, _, _)
code_def(node, default_filters, local_vars) ==
    LET stmt == node.value
        nodes == node.nodes
        opens == {j \in 6..Len(stmt) : stmt[j] = "("} IN
    IF nodes = <<>> THEN <<Raise("IndexError")>>
    ELSE IF nodes[1].token \in COMPOUND_TOKENS
    THEN <<Block("def", stmt, <<Plain("raise SyntaxError", <<>>)>>)>>
    ELSE <<Block("def", stmt,
                 IF Len(nodes) = 1 THEN <<Plain("return_const", <<>>)>>
                 ELSE IF Len(nodes) = 2 /\ nodes[1].token = "out"
                         /\ Len(nodes[1].nodes) = 1 /\ nodes[1].nodes[1].token = "markup"
                 THEN <<Plain("return_const", nodes[1].nodes[1].value)>>
                 ELSE <<Plain("declare", <<>>)>>
                        \o code_block(nodes, default_filters, local_vars)
                        \o <<Plain("return_join", <<>>)>>)>>
           \o (IF opens = {} THEN <<Raise("ValueError")>>
               ELSE <<Plain("setdefs", Piece(stmt, 5, Least(opens) - 1))>>)

code_token(node, default_filters, local_vars) ==
    CASE node.token \in {"statement", "import", "from"} -> <<Plain(node.token, node.value)>>
      [] node.token \in {"#", "end"} -> <<>>
      [] node.token = "require" -> code_require(node.value, local_vars)
      [] node.token = "out" -> code_out(node.nodes, default_filters)
      [] node.token = "compound" ->
           <<Block("compound", node.value,
                   code_block(node.nodes, default_filters, local_vars))>>
      [] node.token = "def" -> code_def(node, default_filters, local_vars)
      [] OTHER -> <<Raise("AssertionError")>>

code_block(nodes, default_filters, local_vars) ==
    IF nodes = <<>> THEN <<>>
    ELSE code_token(Head(nodes), default_filters, local_vars)
           \o code_block(Tail(nodes), default_filters,
                         IF Head(nodes).token = "require"
                         THEN local_vars \cup {Head(nodes).value[k] : k \in 1..Len(Head(nodes).value)}
                         ELSE local_vars)

\* A build_render that builds the nodes before the extends node as well.
code_render_all_before(nodes, default_filters) ==
    IF nodes = <<>> THEN <<Plain("return_const", <<>>)>>
    ELSE IF Len(nodes) < 3 /\ nodes[Len(nodes)].token = "extends"
    THEN code_block(SubSeq(nodes, 1, Len(nodes) - 1)
                      \o SelectSeq(nodes[Len(nodes)].nodes,
                                   LAMBDA n : n.token \in {"def", "require"}),
                    default_filters, {})
           \o <<Plain("return_r", nodes[Len(nodes)].value)>>
    ELSE IF Len(nodes) = 1 /\ nodes[1].token = "out" /\ Len(nodes[1].nodes) = 1
            /\ nodes[1].nodes[1].token = "markup"
    THEN <<Plain("return_const", nodes[1].nodes[1].value)>>
    ELSE <<Plain("declare", <<>>)>> \o code_block(nodes, default_filters, {})
           \o <<Plain("return_join", <<>>)>>

\* build_render: the body of def render(ctx, local_defs, super_defs).
code_render(nodes, default_filters) ==
    IF nodes = <<>> THEN <<Plain("return_const", <<>>)>>
    ELSE IF Len(nodes) < 3 /\ nodes[Len(nodes)].token = "extends"
    THEN code_block(SelectSeq(nodes[Len(nodes)].nodes,
                              LAMBDA n : n.token \in {"def", "require"}),
                    default_filters, {})
           \o <<Plain("return_r", nodes[Len(nodes)].value)>>
    ELSE IF Len(nodes) = 1 /\ nodes[1].token = "out" /\ Len(nodes[1].nodes) = 1
            /\ nodes[1].nodes[1].token = "markup"
    THEN <<Plain("return_const", nodes[1].nodes[1].value)>>
    ELSE <<Plain("declare", <<>>)>> \o code_block(nodes, default_filters, {})
           \o <<Plain("return_join", <<>>)>>

\* The error building raises: that of the first statement that is one.
RECURSIVE raised(_)
raised(lines) ==
    IF lines = <<>> THEN "none"
    ELSE IF Head(lines).error # "none" THEN Head(lines).error
    ELSE IF raised(Head(lines).body) # "none" THEN raised(Head(lines).body)
    ELSE raised(Tail(lines))

\* compile_template: self.build(lineno=-2, nodes=nodes, default_filters=filters)
do_build ==
    /\ phase = "nodes"
    /\ LET lines == code_render(tree, request.default_filters) IN
       IF raised(lines) = "none"
       THEN /\ built' = lines
            /\ phase' = "built"
            /\ UNCHANGED failure
       ELSE /\ Fail(raised(lines), 0)
            /\ UNCHANGED built
    /\ UNCHANGED <<request, loaded, pos, lineno, tokens, tree, written>>
    /\ UNCHANGED <<engineVars, renderVars, buildVars>>

\* ------------------------------------------------- running what was built
\* The values of Python the templates tried work on.
Str == <<"s", "t", "r">>
Number(n) == [t |-> "int", v |-> n]
Text(cs) == [t |-> "str", v |-> cs]
List(xs) == [t |-> "list", v |-> xs]
Function(f) == [t |-> "function", v |-> f]
Digit(n) == <<"0", "1", "2", "3", "4", "5", "6", "7", "8", "9">>[n + 1]

\* str(x), which is unicode: the digits of a number, the text of a list.
RECURSIVE unicode(_)
unicode(x) ==
    LET RECURSIVE joined(_)
        joined(xs) == IF xs = <<>> THEN <<>>
                      ELSE unicode(Head(xs)).v
                             \o (IF Len(xs) > 1 THEN <<",", " ">> ELSE <<>>) \o joined(Tail(xs)) IN
    CASE x.t = "str" -> x
      [] x.t = "int" -> Text(<<Digit(x.v)>>)
      [] x.t = "list" -> Text(<<"[">> \o joined(x.v) \o <<"]">>)
      [] OTHER -> Text(<<"<", "f", ">">>)

\* escape_html(s)
RECURSIVE escape_chars(_)
escape_chars(cs) ==
    IF cs = <<>> THEN <<>>
    ELSE (CASE Head(cs) = "&" -> <<"&", "a", "m", "p", ";">>
            [] Head(cs) = "<" -> <<"&", "l", "t", ";">>
            [] Head(cs) = ">" -> <<"&", "g", "t", ";">>
            [] Head(cs) = "\"" -> <<"&", "q", "u", "o", "t", ";">>
            [] Head(cs) = "'" -> <<"&", "#", "x", "2", "7", ";">>
            [] OTHER -> <<Head(cs)>>) \o escape_chars(Tail(cs))
escape_html(x) == Text(escape_chars(unicode(x).v))

\* Engine.global_vars: the functions an expression can name.
global_vars == {Str, Escape}
IsName(cs) ==
    /\ cs # <<>>
    /\ \A j \in 1..Len(cs) : cs[j] \in WordChars
    /\ cs[1] \notin {"0", "1", "2", "3"}
Reserved ==
    {<<"c", "t", "x">>, <<"w">>, <<"_", "b">>, <<"_", "r">>, <<"_", "i">>,
     <<"l", "o", "c", "a", "l", "_", "d", "e", "f", "s">>,
     <<"s", "u", "p", "e", "r", "_", "d", "e", "f", "s">>}

\* An expression f(g(...(name)...)): the function it calls and what is inside.
IsCall(e) == e # <<>> /\ e[Len(e)] = ")" /\ \E j \in 1..Len(e) : e[j] = "("
Callee(e) == Piece(e, 1, Least({j \in 1..Len(e) : e[j] = "("}) - 1)
Argument(e) == Piece(e, Least({j \in 1..Len(e) : e[j] = "("}) + 1, Len(e) - 1)

Value(v) == [error |-> "none", v |-> v]
Error(e) == [error |-> e, v |-> Text(<<>>)]

\* The value of an expression under the local variables.
RECURSIVE Eval(_, _)
Eval(e, locals) ==
    IF IsCall(e)
    THEN LET f == Callee(e) IN
         IF f # <<>> /\ f \notin global_vars /\ f \notin DOMAIN locals THEN Error("NameError")
         ELSE LET x == Eval(Argument(e), locals) IN
              IF x.error # "none" THEN x
              ELSE IF f = <<>> THEN x
              ELSE IF f \in DOMAIN locals THEN Error("TypeError")
              ELSE IF f = Str THEN Value(unicode(x.v))
              ELSE Value(escape_html(x.v))
    ELSE IF e \in DOMAIN locals THEN Value(locals[e])
    ELSE IF e \in global_vars THEN Value(Function(e))
    ELSE Error("NameError")

\* for <name> in <names or ctx['name']>: the words of the header.
In == <<"i", "n">>
For == <<"f", "o", "r">>
CtxOpen == <<"c", "t", "x", "[", "'">>
CtxClose == <<"'", "]">>
Words(stmt) == SelectSeq(split(stmt, " "), LAMBDA w : w # <<>>)
Colon(stmt) == stmt # <<>> /\ stmt[Len(stmt)] = ":"
Iterable(stmt) ==
    LET w == Words(stmt)[4] IN IF Colon(w) THEN Piece(w, 1, Len(w) - 1) ELSE w
CtxKey(e) ==
    IF Len(e) > 7 /\ SubSeq(e, 1, 5) = CtxOpen /\ SubSeq(e, Len(e) - 1, Len(e)) = CtxClose
    THEN SubSeq(e, 6, Len(e) - 2) ELSE <<>>
IsFor(stmt) ==
    /\ Len(Words(stmt)) = 4
    /\ Words(stmt)[1] = For /\ Words(stmt)[3] = In
    /\ IsName(Words(stmt)[2]) /\ Words(stmt)[2] \notin Reserved
    /\ \/ IsName(Iterable(stmt)) /\ Iterable(stmt) \notin Reserved
       \/ IsName(CtxKey(Iterable(stmt)))

\* An expression of calls around one name.
RECURSIVE IsSimple(_)
IsSimple(e) ==
    IF IsCall(e) THEN (Callee(e) = <<>> \/ IsName(Callee(e))) /\ Callee(e) \notin Reserved
                      /\ IsSimple(Argument(e))
    ELSE IsName(e) /\ e \notin Reserved

\* The statements the model gives a meaning to: the writer, the text and the
\* simple expressions written, require, and for loops over such statements.
RECURSIVE Interpretable(_)
Interpretable(lines) ==
    \A k \in 1..Len(lines) :
        \/ lines[k].op \in {"declare", "w_text", "return_join", "return_const", "require"}
        \/ lines[k].op = "w" /\ IsSimple(lines[k].text)
        \/ lines[k].op = "compound" /\ IsFor(lines[k].text) /\ Interpretable(lines[k].body)

\* compile_code: what Python's compile() says of the statements.
RECURSIVE compile_error(_)
compile_error(lines) ==
    IF lines = <<>> THEN "none"
    ELSE IF Head(lines).op = "compound" /\ ~Colon(Head(lines).text) THEN "SyntaxError"
    ELSE IF Head(lines).op = "compound" /\ Head(lines).body = <<>> THEN "IndentationError"
    ELSE IF Head(lines).op = "compound" /\ compile_error(Head(lines).body) # "none"
    THEN compile_error(Head(lines).body)
    ELSE compile_error(Tail(lines))

\* The run of render(ctx, local_defs, super_defs): the local variables, the
\* list _b, the error raised and the value returned, once there is one.
Started == [locals |-> EmptyMap, b |-> <<>>, error |-> "none", returned |-> FALSE,
            value |-> <<>>]
RECURSIVE exec_block(_, _, _)
RECURSIVE exec_for(_, _, _, _, _)
RECURSIVE bind(_, _, _)
bind(names, ctx, st) ==
    IF names = <<>> THEN st
    ELSE IF Head(names) \notin DOMAIN ctx THEN [st EXCEPT !.error = "KeyError"]
    ELSE bind(Tail(names), ctx, [st EXCEPT !.locals = Put(@, Head(names), ctx[Head(names)])])

exec_line(l, ctx, st) ==
    CASE l.op = "declare" -> [st EXCEPT !.b = <<>>]
      [] l.op = "w_text" -> [st EXCEPT !.b = Append(@, Text(l.text))]
      [] l.op = "w" ->
           LET x == Eval(l.text, st.locals) IN
           IF x.error # "none" THEN [st EXCEPT !.error = x.error]
           ELSE [st EXCEPT !.b = Append(@, x.v)]
      [] l.op = "require" -> bind(l.names, ctx, st)
      [] l.op = "compound" ->
           LET e == Iterable(l.text)
               x == IF CtxKey(e) # <<>>
                    THEN (IF CtxKey(e) \in DOMAIN ctx THEN Value(ctx[CtxKey(e)])
                          ELSE Error("KeyError"))
                    ELSE Eval(e, st.locals) IN
           IF x.error # "none" THEN [st EXCEPT !.error = x.error]
           ELSE IF x.v.t = "list" THEN exec_for(Words(l.text)[2], x.v.v, l.body, ctx, st)
           ELSE IF x.v.t = "str"
           THEN exec_for(Words(l.text)[2], [k \in 1..Len(x.v.v) |-> Text(<<x.v.v[k]>>)],
                         l.body, ctx, st)
           ELSE [st EXCEPT !.error = "TypeError"]
      [] l.op = "return_join" ->
           IF \A k \in 1..Len(st.b) : st.b[k].t = "str"
           THEN [st EXCEPT !.returned = TRUE,
                           !.value = LET RECURSIVE join(_)
                                         join(xs) == IF xs = <<>> THEN <<>>
                                                     ELSE Head(xs).v \o join(Tail(xs)) IN
                                     join(st.b)]
           ELSE [st EXCEPT !.error = "TypeError"]
      [] OTHER -> [st EXCEPT !.returned = TRUE, !.value = l.text]

exec_block(lines, ctx, st) ==
    IF lines = <<>> \/ st.error # "none" \/ st.returned THEN st
    ELSE exec_block(Tail(lines), ctx, exec_line(Head(lines), ctx, st))

exec_for(var, items, body, ctx, st) ==
    IF items = <<>> \/ st.error # "none" \/ st.returned THEN st
    ELSE exec_for(var, Tail(items), body, ctx,
                  exec_block(body, ctx, [st EXCEPT !.locals = Put(@, var, Head(items))]))

\* compile_template: source.compile_code(path or '<string>'), and the exec
\* that defines render.
do_compile_code ==
    /\ phase = "built"
    /\ Interpretable(built)
    /\ IF compile_error(built) = "none"
       THEN phase' = "template" /\ UNCHANGED failure
       ELSE Fail(compile_error(built), 0)
    /\ UNCHANGED <<request, loaded, pos, lineno, tokens, tree, built, written>>
    /\ UNCHANGED <<engineVars, renderVars, buildVars>>

\* Template.render(ctx)
do_render ==
    /\ phase = "template"
    /\ LET st == exec_block(built, request.ctx, Started) IN
       IF st.error = "none"
       THEN /\ written' = st.value
            /\ phase' = "rendered"
            /\ UNCHANGED failure
       ELSE /\ Fail(st.error, 0)
            /\ UNCHANGED written
    /\ UNCHANGED <<request, loaded, pos, lineno, tokens, tree, built>>
    /\ UNCHANGED <<engineVars, renderVars, buildVars>>

\* ------------------------------------------------------------- the inputs
\* The sources tried besides the short ones, character by character.
\* For over a name no statement has bound
ForItems ==
    <<"%", "f", "o", "r", " ", "x", " ", "i", "n", " ", "i", "t", "e",
      "m", "s", ":", "\n", "{", "{", " ", "x", " ", "}", "}", "\n",
      "%", "e", "n", "d", "\n">>
\* For over ctx['items']
ForCtxItems ==
    <<"%", "f", "o", "r", " ", "x", " ", "i", "n", " ", "c", "t", "x",
      "[", "'", "i", "t", "e", "m", "s", "'", "]", ":", "\n", "{", "{",
      " ", "x", " ", "}", "}", "\n", "%", "e", "n", "d", "f", "o", "r",
      "\n">>
\* For over a required name
ForRequired ==
    <<"%", "r", "e", "q", "u", "i", "r", "e", "(", "i", "t", "e", "m",
      "s", ")", "\n", "%", "f", "o", "r", " ", "x", " ", "i", "n", " ",
      "i", "t", "e", "m", "s", ":", "\n", "{", "{", " ", "x", " ", "}",
      "}", "\n", "%", "e", "n", "d", "\n">>
\* The for line without its colon
ForNoColon ==
    <<"%", "f", "o", "r", " ", "x", " ", "i", "n", " ", "c", "t", "x",
      "[", "'", "i", "t", "e", "m", "s", "'", "]", "\n", "{", "{", "x",
      "}", "}", "\n", "%", "e", "n", "d", "f", "o", "r", "\n">>
\* The body line joined to the next
ForJoined ==
    <<"%", "f", "o", "r", " ", "x", " ", "i", "n", " ", "c", "t", "x",
      "[", "'", "i", "t", "e", "m", "s", "'", "]", ":", "\n", "{", "{",
      " ", "x", " ", "}", "}", "\\", "\n", "%", "e", "n", "d", "\n">>
\* A for with no body
ForEmpty ==
    <<"%", "f", "o", "r", " ", "x", " ", "i", "n", " ", "c", "t", "x",
      "[", "'", "i", "t", "e", "m", "s", "'", "]", ":", "\n", "%", "e",
      "n", "d", "\n">>
\* A for with no end
ForUnclosed ==
    <<"a", "\n", "%", "f", "o", "r", " ", "x", " ", "i", "n", " ", "c",
      "t", "x", "[", "'", "i", "t", "e", "m", "s", "'", "]", ":", "\n",
      "b", "\n">>
\* Extends with no parentheses
ExtendsBare ==
    <<"%", "e", "x", "t", "e", "n", "d", "s", "\n">>
\* Text with a DOS line end
TwoLines ==
    <<"a", "\r", "\n", "b", "\n">>
\* Text and variables on two lines
TextVarText ==
    <<"a", "{", "{", " ", "v", " ", "}", "}", "b", "\n", "c", "{", "{",
      " ", "v", " ", "}", "}">>
\* An escaped statement leader
Percent ==
    <<"a", "\n", " ", " ", "%", "%", "b">>
\* A require, then extends, a def that reads the name required, and text
RequireExtends ==
    <<"%", "r", "e", "q", "u", "i", "r", "e", "(", "v", ")", "\n", "%",
      "e", "x", "t", "e", "n", "d", "s", "(", "\"", "b", "\"", ")",
      "\n", "%", "d", "e", "f", " ", "f", "(", ")", ":", "\n", "c",
      "{", "{", " ", "v", " ", "}", "}", "\n", "%", "e", "n", "d",
      "\n", "z", "\n">>
\* Extends, then the require and the def
ExtendsRequire ==
    <<"%", "e", "x", "t", "e", "n", "d", "s", "(", "\"", "b", "\"",
      ")", "\n", "%", "r", "e", "q", "u", "i", "r", "e", "(", "v", ")",
      "\n", "%", "d", "e", "f", " ", "f", "(", ")", ":", "\n", "c",
      "{", "{", " ", "v", " ", "}", "}", "\n", "%", "e", "n", "d", "\n">>
\* Text with braces and spaces and no statement or variable
LiteralText ==
    <<"a", " ", "{", "b", "}", "\n", " ", "}", "}", "c", "\n">>
Samples ==
    {LiteralText, RequireExtends, ExtendsRequire, ForItems, ForCtxItems, ForRequired, ForNoColon, ForJoined, ForEmpty, ForUnclosed, ExtendsBare, TwoLines, TextVarText, Percent}

\* The names and values of the contexts: items is a list of numbers, v a text.
Items == <<"i", "t", "e", "m", "s">>
V == <<"v">>
Numbers(ns) == List([k \in 1..Len(ns) |-> Number(ns[k])])
Stores == {"given", "templates", "file", "nowhere"}

NoRequest ==
    [name |-> Null, source |-> <<>>, stored |-> "given", default_filters |-> <<Str>>,
     ctx |-> EmptyMap, filters |-> <<>>]

\* Nothing loaded, tokenized, parsed, built or rendered yet.
Untouched ==
    /\ loaded = [path |-> Null, text |-> <<>>]
    /\ pos = 0
    /\ lineno = 1
    /\ tokens = <<>>
    /\ tree = <<>>
    /\ built = <<>>
    /\ written = <<>>
    /\ failure = NoFailure

\* A stream of tokens handed to the parser as it is.
GivenTokens ==
    /\ \E ks \in SeqsUpTo(TokenKinds, MaxTokens) : tokens = StreamOf(ks)
    /\ request = [NoRequest EXCEPT !.stored = "tokens"]
    /\ loaded = [path |-> Null, text |-> <<>>]
    /\ pos = 0
    /\ lineno = 1
    /\ tree = <<>>
    /\ built = <<>>
    /\ written = <<>>
    /\ phase = "tokens"
    /\ failure = NoFailure

\* The characters of the sources tried in every arrangement.
Alphabet == {"a", "\n", "%", "{", "}", "\\"}

\* get_template(None, source=text) for every text of up to MaxLen characters.
GivenSource ==
    /\ \E text \in SeqsUpTo(Alphabet, MaxLen) :
         request = [NoRequest EXCEPT !.source = text]
    /\ Untouched
    /\ phase = "request"

\* get_template(None, source=text) for a sample, rendered with a list of
\* numbers as items or with no items.
GivenSample ==
    /\ \E text \in Samples, ns \in SeqsUpTo(1..3, MaxList), with \in BOOLEAN :
         request = [NoRequest EXCEPT !.source = text,
                                     !.ctx = IF with THEN Put(EmptyMap, Items, Numbers(ns))
                                             ELSE EmptyMap]
    /\ Untouched
    /\ phase = "request"

\* get_template(name, source=text) or get_template(name), the text being kept
\* where stored says when it is not given.
GivenStored ==
    /\ \E text \in {TwoLines, Percent}, name \in {Null, "t"}, stored \in Stores :
         request = [NoRequest EXCEPT !.name = name, !.source = text, !.stored = stored]
    /\ Untouched
    /\ phase = "request"

\* The filters a variable names, the lists of default filters of an Engine.
FilterNames == {<<"u">>, <<"n">>, <<"e">>, Str}
DefaultFilters == {<<>>, <<Str>>, <<Str, <<"e">>>>}
RECURSIVE piped(_)
piped(fs) == IF fs = <<>> THEN <<>> ELSE <<"|", " ">> \o Head(fs) \o piped(Tail(fs))
Require == <<"%", "r", "e", "q", "u", "i", "r", "e">>
VarSource(fs) ==
    Require \o <<"(">> \o V \o <<")", "\n">>
      \o <<"{", "{", " ">> \o V \o piped(fs) \o <<" ", "}", "}">>

\* get_template(None, source='%require(v)\n{{ v| f1| ...| fk }}',
\* default_filters=...), rendered with a text as v.
GivenVar ==
    /\ \E fs \in SeqsUpTo(FilterNames, MaxFilters), df \in DefaultFilters :
         request = [NoRequest EXCEPT !.source = VarSource(fs), !.default_filters = df,
                                     !.filters = fs,
                                     !.ctx = Put(EmptyMap, V, Text(<<"<", "a", ">">>))]
    /\ Untouched
    /\ phase = "request"

CompileInit ==
    /\ NewEngine /\ budget = 0 /\ NoRender /\ NoBuild
    /\ GivenTokens \/ GivenSource \/ GivenSample \/ GivenStored \/ GivenVar

CompileNext ==
    \/ do_load
    \/ tokenize_begin
    \/ tokenize_rule
    \/ tokenize_return
    \/ do_end_continue
    \/ do_parse_iter
    \/ do_build
    \/ do_compile_code
    \/ do_render

CompileSpec == CompileInit /\ [][CompileNext]_vars

\* ============================================== the builder, line by line
\* ------------------------------------------------------- BlockBuilder.add
\* The lines are strings, as in the list the BlockBuilder is; the indent is
\* counted in spaces.
writer_declare_code == <<"_", "b", " ", "=", " ", "[", "]", ";", " ", "w", " ", "=", " ", "_", "b", ".", "a", "p", "p", "e", "n", "d">>
writer_return_code == <<"r", "e", "t", "u", "r", "n", " ", "\"", "\"", ".", "j", "o", "i", "n", "(", "_", "b", ")">>
Spaces(n) == [k \in 1..n |-> " "]

\* with self: __enter__ and __exit__
BlockBuilder_enter(self) == [self EXCEPT !.indent = @ + 4]
BlockBuilder_keep_indent(self) == self
BlockBuilder_exit(self) == [self EXCEPT !.indent = IF @ < 4 THEN 0 ELSE @ - 4]

\* An add that pads no blank lines for the template lines skipped.
add_no_pad(self, line, code) ==
    LET c == IF code = <<"r", "e", "t", "u", "r", "n">> THEN writer_return_code ELSE code
        last == self.lines[Len(self.lines)] IN
    IF line < self.lineno THEN [self |-> self, error |-> "AssertionError"]
    ELSE IF line > self.lineno
    THEN [self |-> [self EXCEPT
                      !.lines = @ \o <<IF c # <<>> THEN Spaces(self.indent) \o c ELSE <<>>>>,
                      !.lineno = line + Newlines(c)],
          error |-> "none"]
    ELSE IF c = <<>> THEN [self |-> [self EXCEPT !.lineno = line], error |-> "none"]
    ELSE IF self.lines = <<>> THEN [self |-> self, error |-> "IndexError"]
    ELSE [self |-> [self EXCEPT
                      !.lines[Len(self.lines)] =
                          (IF last = <<>> THEN Spaces(self.indent)
                           ELSE IF last[Len(last)] # ":" THEN last \o <<";", " ">>
                           ELSE last) \o c,
                      !.lineno = line + Newlines(c)],
          error |-> "none"]

\* BlockBuilder.add(lineno, code): the builder after it, or the error raised.
add(self, line, code) ==
    LET c == IF code = <<"r", "e", "t", "u", "r", "n">> THEN writer_return_code ELSE code
        pad == line - self.lineno - 1
        last == self.lines[Len(self.lines)] IN
    IF line < self.lineno THEN [self |-> self, error |-> "AssertionError"]
    ELSE IF line > self.lineno
    THEN [self |-> [self EXCEPT
                      !.lines = @ \o [k \in 1..pad |-> <<>>]
                                  \o <<IF c # <<>> THEN Spaces(self.indent) \o c ELSE <<>>>>,
                      !.lineno = line + Newlines(c)],
          error |-> "none"]
    ELSE IF c = <<>> THEN [self |-> [self EXCEPT !.lineno = line], error |-> "none"]
    ELSE IF self.lines = <<>> THEN [self |-> self, error |-> "IndexError"]
    ELSE [self |-> [self EXCEPT
                      !.lines[Len(self.lines)] =
                          (IF last = <<>> THEN Spaces(self.indent)
                           ELSE IF last[Len(last)] # ":" THEN last \o <<";", " ">>
                           ELSE last) \o c,
                      !.lineno = line + Newlines(c)],
          error |-> "none"]

\* repr(value) of a string: quoted, with newline, backslash and quote escaped.
RECURSIVE repr_chars(_, _)
repr_chars(s, quote) ==
    IF s = <<>> THEN <<>>
    ELSE (CASE Head(s) = "\n" -> <<"\\", "n">>
            [] Head(s) = "\r" -> <<"\\", "r">>
            [] Head(s) = "\\" -> <<"\\", "\\">>
            [] Head(s) = quote -> <<"\\", quote>>
            [] OTHER -> <<Head(s)>>) \o repr_chars(Tail(s), quote)
repr(s) ==
    LET has(c) == \E k \in 1..Len(s) : s[k] = c
        quote == IF has("'") /\ ~has("\"") THEN "\"" ELSE "'" IN
    <<quote>> \o repr_chars(s, quote) \o <<quote>>

\* setdefs('?', name): the line that follows a def
setdefs_code(name) ==
    <<"s", "u", "p", "e", "r", "_", "d", "e", "f", "s", "[", "'">> \o name \o <<"'", "]", " ", "=", " ">> \o name \o <<";", " ">> \o name
      \o <<" ", "=", " ", "l", "o", "c", "a", "l", "_", "d", "e", "f", "s", ".", "s", "e", "t", "d", "e", "f", "a", "u", "l", "t", "(", "'">> \o name \o <<"'", ",", " ">> \o name \o <<")">>

\* "; ".join(v + " = ctx['" + v + "']" for v in values if v not in local_vars)
RECURSIVE require_stmt(_, _)
require_stmt(values, local_vars) ==
    LET rest == SelectSeq(values, LAMBDA v : v \notin local_vars) IN
    IF rest = <<>> THEN <<>>
    ELSE Head(rest) \o <<" ", "=", " ", "c", "t", "x", "[", "'">> \o Head(rest) \o <<"'", "]">>
           \o (IF Tail(rest) = <<>> THEN <<>>
               ELSE <<";", " ">> \o require_stmt(Tail(rest), local_vars))

\* A build_require that binds every name it is given.
build_require_rebind(self, line, values) ==
    add([self EXCEPT !.local_vars = @ \cup {values[k] : k \in 1..Len(values)}],
        line, require_stmt(values, {}))

\* BlockBuilder.build_require
build_require(self, line, values) ==
    add([self EXCEPT !.local_vars = @ \cup {values[k] : k \in 1..Len(values)}],
        line, require_stmt(values, self.local_vars))

\* '\n'.join(self), the source compile_code compiles, and its lines.
RECURSIVE join_lines(_)
join_lines(lines) ==
    IF lines = <<>> THEN <<>>
    ELSE IF Len(lines) = 1 THEN lines[1]
    ELSE lines[1] \o <<"\n">> \o join_lines(Tail(lines))

\* ------------------------------------------------------ the build methods
\* What a running build method has yet to do: the nodes build_block has not
\* built ("block"), the sub-tokens build_out has not written ("out"), the
\* __exit__ of a with ("exit"), a call of add that follows ("add"), and the
\* ends of build_def and build_render. level is the number of compounds and
\* defs around the nodes, the render function included.
Item(op, nodes, line, code, level) ==
    [op |-> op, nodes |-> nodes, line |-> line, code |-> code, level |-> level]
BlockItem(nodes, level) == Item("block", nodes, 0, <<>>, level)
ExitItem == Item("exit", <<>>, 0, <<>>, 0)
AddItem(line, code, level) == Item("add", <<>>, line, code, level)

Doing == todo[Len(todo)]
Done == SubSeq(todo, 1, Len(todo) - 1)
Push(stack, item) ==
    IF item.op \in {"block", "out"} /\ item.nodes = <<>> THEN stack ELSE Append(stack, item)
RECURSIVE PushAll(_, _)
PushAll(stack, items) ==
    IF items = <<>> THEN stack ELSE PushAll(Push(stack, Head(items)), Tail(items))

\* build_block: the node it is at, and what is left of the work with that
\* node taken.
AtNode == building = "yes" /\ todo # <<>> /\ Doing.op = "block"
ThisNode == Head(Doing.nodes)
Rest == Push(Done, [Doing EXCEPT !.nodes = Tail(@)])
AtItem(op) == building = "yes" /\ todo # <<>> /\ Doing.op = op

\* The lines of text the list makes once joined.
RECURSIVE TextLines(_)
TextLines(lines) ==
    IF lines = <<>> THEN 0 ELSE 1 + Newlines(Head(lines)) + TextLines(Tail(lines))

\* An exception leaves the build methods.
Raises(e) ==
    /\ building' = "raising"
    /\ raising' = e
    /\ UNCHANGED <<given, builder, todo, added, required>>

\* self.add(line, code) by a build method at the given level, which then has
\* left what is put on the work; enter says that the call is the subject of a
\* with. The call is recorded with the line of text its code went to.
Add(line, code, level, left, enter) ==
    LET r == add(builder, line, code) IN
    IF r.error # "none" THEN Raises(r.error)
    ELSE /\ builder' = IF enter THEN BlockBuilder_enter(r.self) ELSE r.self
         /\ todo' = left
         /\ added' = Append(added,
                [line |-> line, level |-> level,
                 on |-> IF code = <<>> THEN 0
                        ELSE TextLines(r.self.lines) - (r.self.lineno - line)])
         /\ UNCHANGED <<given, building, raising, required>>

Skip(left) ==
    /\ todo' = left
    /\ UNCHANGED <<given, builder, building, raising, added, required>>

\* rules['statement'] = [add]
rule_statement ==
    /\ AtNode /\ ThisNode.token = "statement"
    /\ Add(ThisNode.lineno, ThisNode.value, Doing.level, Rest, FALSE)
    /\ UNCHANGED <<engineVars, renderVars, compileVars>>

\* rules['#'] = []
rule_comment ==
    /\ AtNode /\ ThisNode.token = "#"
    /\ Skip(Rest)
    /\ UNCHANGED <<engineVars, renderVars, compileVars>>

\* build_token: assert token in self.rules
rule_missing ==
    /\ AtNode
    /\ ThisNode.token \notin {"statement", "#", "render", "require", "out", "compound",
                              "def", "end"}
    /\ Raises("AssertionError")
    /\ UNCHANGED <<engineVars, renderVars, compileVars>>

\* build_require
rule_require ==
    /\ AtNode /\ ThisNode.token = "require"
    /\ LET r == build_require(builder, ThisNode.lineno, ThisNode.value) IN
       IF r.error # "none" THEN Raises(r.error)
       ELSE /\ builder' = r.self
            /\ todo' = Rest
            /\ added' = Append(added,
                   [line |-> ThisNode.lineno, level |-> Doing.level,
                    on |-> IF r.self.lines = builder.lines
                              \/ r.self.lines[Len(r.self.lines)] = <<>> THEN 0
                           ELSE TextLines(r.self.lines)])
            /\ required' = Append(required,
                   [line |-> ThisNode.lineno, values |-> ThisNode.value,
                    had |-> builder.local_vars])
            /\ UNCHANGED <<given, building, raising>>
    /\ UNCHANGED <<engineVars, renderVars, compileVars>>

\* build_out: the loop over the sub-tokens begins
rule_out ==
    /\ AtNode /\ ThisNode.token = "out"
    /\ Skip(Push(Rest, Item("out", ThisNode.nodes, 0, <<>>, Doing.level)))
    /\ UNCHANGED <<engineVars, renderVars, compileVars>>

\* build_out, one sub-token: w(...) for a value that is not empty
build_out_token ==
    /\ AtItem("out")
    /\ LET t == Head(Doing.nodes)
           left == Push(Done, [Doing EXCEPT !.nodes = Tail(@)])
           value == CASE t.token = "include" ->
                           <<"_", "r", "(">> \o t.value \o <<",", " ", "c", "t", "x", ",", " ", "l", "o", "c", "a", "l", "_", "d", "e", "f", "s", ",", " ", "s", "u", "p", "e", "r", "_", "d", "e", "f", "s", ")">>
                      [] t.token = "var" -> build_out_var(t.value, <<Str>>)
                      [] t.value # <<>> -> repr(t.value)
                      [] OTHER -> <<>> IN
       IF value = <<>> THEN Skip(left)
       ELSE Add(t.lineno, <<"w", "(">> \o value \o <<")">>, Doing.level, left, FALSE)
    /\ UNCHANGED <<engineVars, renderVars, compileVars>>

\* build_compound: with self.add(lineno, stmt): return self.build_block(nodes)
rule_compound ==
    /\ AtNode /\ ThisNode.token = "compound"
    /\ Add(ThisNode.lineno, ThisNode.value, Doing.level,
           PushAll(Rest, <<ExitItem, BlockItem(ThisNode.nodes, Doing.level + 1)>>), TRUE)
    /\ UNCHANGED <<engineVars, renderVars, compileVars>>

\* build_def, up to the call of add with the def statement. What follows is
\* on the work: the raise of a compound that comes first, or the return of a
\* single markup, or the writer, the body and its return; then the setdefs
\* line, but not after the raise.
rule_def ==
    /\ AtNode /\ ThisNode.token = "def"
    /\ LET stmt == ThisNode.value
           nodes == ThisNode.nodes
           line == ThisNode.lineno
           level == Doing.level
           single == \/ Len(nodes) = 1
                     \/ /\ Len(nodes) = 2
                        /\ nodes[1].token = "out"
                        /\ Len(nodes[1].nodes) = 1
                        /\ nodes[1].nodes[1].token = "markup"
           ln == IF Len(nodes) = 1 THEN line ELSE nodes[1].nodes[1].lineno
           markup == IF Len(nodes) = 1 THEN <<>> ELSE nodes[1].nodes[1].value IN
       IF nodes = <<>> THEN Raises("IndexError")
       ELSE IF nodes[1].token \in COMPOUND_TOKENS
       THEN Add(line, stmt, level,
                PushAll(Rest, <<ExitItem,
                                AddItem(nodes[1].lineno, <<"r", "a", "i", "s", "e", " ", "S", "y", "n", "t", "a", "x", "E", "r", "r", "o", "r", "(", "e", "r", "r", "o", "r", ")">>, level + 1)>>),
                TRUE)
       ELSE IF single
       THEN Add(line, stmt, level,
                PushAll(Rest, <<Item("setdefs", <<>>, ln + 1, stmt, level),
                                ExitItem,
                                AddItem(ln, <<"r", "e", "t", "u", "r", "n", " ">> \o repr(markup), level + 1)>>),
                TRUE)
       ELSE Add(line, stmt, level,
                PushAll(Rest, <<Item("setdefs", <<>>, 0, stmt, level),
                                ExitItem,
                                Item("def_return", <<>>, 0, <<>>, level + 1),
                                BlockItem(nodes, level + 1),
                                AddItem(line + 1, writer_declare_code, level + 1)>>),
                TRUE)
    /\ UNCHANGED <<engineVars, renderVars, compileVars>>

\* build_def: ln = self.lineno; self.add(ln, self.writer_return), and the
\* setdefs line is for ln + 1.
def_return ==
    /\ AtItem("def_return")
    /\ Add(builder.lineno, writer_return_code, Doing.level,
           [Done EXCEPT ![Len(Done) - 1].line = builder.lineno + 1], FALSE)
    /\ UNCHANGED <<engineVars, renderVars, compileVars>>

\* build_def: return self.add(ln + 1, setdefs('?', stmt[4:stmt.index('(', 5)]))
def_setdefs ==
    /\ AtItem("setdefs")
    /\ LET stmt == Doing.code
           opens == {j \in 6..Len(stmt) : stmt[j] = "("} IN
       IF opens = {} THEN Raises("ValueError")
       ELSE Add(Doing.line, setdefs_code(Piece(stmt, 5, Least(opens) - 1)), Doing.level,
                Done, FALSE)
    /\ UNCHANGED <<engineVars, renderVars, compileVars>>

\* build_end
rule_end ==
    /\ AtNode /\ ThisNode.token = "end"
    /\ IF builder.lineno # ThisNode.lineno
       THEN Add(ThisNode.lineno - 1, <<>>, Doing.level, Rest, FALSE)
       ELSE Skip(Rest)
    /\ UNCHANGED <<engineVars, renderVars, compileVars>>

\* build_render, up to its first call of add or of build_block
rule_render ==
    /\ AtNode /\ ThisNode.token = "render"
    /\ LET nodes == ThisNode.nodes
           line == ThisNode.lineno
           level == Doing.level
           last == nodes[Len(nodes)] IN
       IF nodes = <<>> THEN Add(line, <<"r", "e", "t", "u", "r", "n", " ", "'", "'">>, level, Rest, FALSE)
       ELSE IF Len(nodes) < 3 /\ last.token = "extends"
       THEN Skip(PushAll(Rest,
                <<Item("render_end", <<>>, 0,
                       <<"r", "e", "t", "u", "r", "n", " ", "_", "r", "(">> \o last.value \o <<",", " ", "c", "t", "x", ",", " ", "l", "o", "c", "a", "l", "_", "d", "e", "f", "s", ",", " ", "s", "u", "p", "e", "r", "_", "d", "e", "f", "s", ")">>, level),
                  BlockItem(SelectSeq(last.nodes, LAMBDA n : n.token \in {"def", "require"}),
                            level)>>))
       ELSE IF Len(nodes) = 1 /\ nodes[1].token = "out" /\ Len(nodes[1].nodes) = 1
               /\ nodes[1].nodes[1].token = "markup"
       THEN Add(nodes[1].nodes[1].lineno, <<"r", "e", "t", "u", "r", "n", " ">> \o repr(nodes[1].nodes[1].value),
                level, Rest, FALSE)
       ELSE Add(line, writer_declare_code, level,
                PushAll(Rest, <<Item("render_end", <<>>, 0, writer_return_code, level),
                                BlockItem(nodes, level)>>),
                FALSE)
    /\ UNCHANGED <<engineVars, renderVars, compileVars>>

\* build_render: return self.add(self.lineno + 1, ...)
render_end ==
    /\ AtItem("render_end")
    /\ Add(builder.lineno + 1, Doing.code, Doing.level, Done, FALSE)
    /\ UNCHANGED <<engineVars, renderVars, compileVars>>

\* A call of add inside a with or after it.
add_next ==
    /\ AtItem("add")
    /\ Add(Doing.line, Doing.code, Doing.level, Done, FALSE)
    /\ UNCHANGED <<engineVars, renderVars, compileVars>>

\* __exit__ at the end of a with
with_exit ==
    /\ AtItem("exit")
    /\ builder' = BlockBuilder_exit(builder)
    /\ todo' = Done
    /\ UNCHANGED <<given, building, raising, added, required>>
    /\ UNCHANGED <<engineVars, renderVars, compileVars>>

\* An exception on its way out: it leaves the methods that are running one by
\* one, and a with it leaves runs __exit__.
unwind ==
    /\ building = "raising"
    /\ IF todo = <<>>
       THEN building' = "failed" /\ UNCHANGED <<builder, todo>>
       ELSE /\ todo' = Done
            /\ builder' = IF Doing.op = "exit" THEN BlockBuilder_exit(builder) ELSE builder
            /\ UNCHANGED building
    /\ UNCHANGED <<given, raising, added, required>>
    /\ UNCHANGED <<engineVars, renderVars, compileVars>>

\* BlockBuilder.__init__ returns.
build_done ==
    /\ building = "yes" /\ todo = <<>>
    /\ building' = "done"
    /\ UNCHANGED <<given, builder, todo, raising, added, required>>
    /\ UNCHANGED <<engineVars, renderVars, compileVars>>

\* ------------------------------------------------------------- the inputs
\* The tokens of the sources tried, by their shape: the token, its value and
\* the newlines of the text it was made from. A statement begins a line, so
\* it is first or follows a token whose text ends a line.
Shapes ==
    {"markup", "var", "call", "statement", "#", "for", "else", "end", "def",
     "require", "require2", "extends", "return"}
ShapeToken(shape) ==
    CASE shape = "markup" -> [token |-> "markup", value |-> <<"a", "\n">>, nl |-> 1]
      [] shape = "var" -> [token |-> "var", value |-> <<"v">>, nl |-> 0]
      [] shape = "call" -> [token |-> "var", value |-> <<"f", "(", "a", ",", "\n", "b", ")">>, nl |-> 1]
      [] shape = "statement" -> [token |-> "statement", value |-> <<"x", " ", "=", " ", "1">>, nl |-> 1]
      [] shape = "return" -> [token |-> "statement", value |-> <<"r", "e", "t", "u", "r", "n">>, nl |-> 1]
      [] shape = "#" -> [token |-> "#", value |-> <<"#", "c">>, nl |-> 1]
      [] shape = "for" -> [token |-> "compound", value |-> <<"f", "o", "r", " ", "x", " ", "i", "n", " ", "y", ":">>, nl |-> 1]
      [] shape = "else" -> [token |-> "continue", value |-> <<"e", "l", "s", "e", ":">>, nl |-> 1]
      [] shape = "end" -> [token |-> "end", value |-> <<"e", "n", "d">>, nl |-> 1]
      [] shape = "def" -> [token |-> "def", value |-> <<"d", "e", "f", " ", "f", "(", ")", ":">>, nl |-> 1]
      [] shape = "require" -> [token |-> "require", value |-> <<<<"v">>>>, nl |-> 1]
      [] shape = "require2" ->
           [token |-> "require", value |-> <<<<"u">>, <<"v">>, <<"u">>>>, nl |-> 1]
      [] shape = "extends" -> [token |-> "extends", value |-> <<"\"", "b", "\"">>, nl |-> 1]
EndsLine(shape) == shape \notin {"var", "call"}
BeginsLine(shape) == shape \notin {"markup", "var", "call"}
Lexed(shapes) ==
    \A i \in 2..Len(shapes) : BeginsLine(shapes[i]) => EndsLine(shapes[i - 1])

\* The tokens as tokenize numbers them: a token is on line 1 plus the newlines
\* of the text before it.
RECURSIVE NewlinesBefore(_, _)
NewlinesBefore(shapes, i) ==
    IF i <= 1 THEN 0 ELSE ShapeToken(shapes[i - 1]).nl + NewlinesBefore(shapes, i - 1)
ShapeStream(shapes) ==
    [i \in 1..Len(shapes) |->
        Token(1 + NewlinesBefore(shapes, i), ShapeToken(shapes[i]).token,
              ShapeToken(shapes[i]).value)]

\* Longer sources: a def with a loop in it, an if with an else, requires
\* among text, a def that returns, a template that extends.
BuildSamples ==
    { <<"def", "markup", "for", "markup", "end", "end", "markup">>,
      <<"for", "markup", "else", "markup", "end", "var">>,
      <<"require2", "markup", "require", "call", "var", "markup", "#", "markup">>,
      <<"def", "return", "end", "markup", "var">>,
      <<"extends", "def", "markup", "end", "require", "def", "var", "markup", "end">>,
      <<"def", "markup", "def", "markup", "end", "statement", "end">> }

\* compile_template: the nodes of the source under the render compound, and
\* self.build(lineno=-2, nodes=nodes, default_filters=filters).
def_render == <<"d", "e", "f", " ", "r", "e", "n", "d", "e", "r", "(", "c", "t", "x", ",", " ", "l", "o", "c", "a", "l", "_", "d", "e", "f", "s", ",", " ", "s", "u", "p", "e", "r", "_", "d", "e", "f", "s", ")", ":">>
Begun(shapes) ==
    LET r == parse_iter(end_continue(ShapeStream(shapes)), 1, <<>>, <<>>) IN
    /\ Lexed(shapes)
    /\ r.err = 0
    /\ given = <<PNode(-1, "compound", def_render, <<PNode(0, "render", <<>>, r.nodes)>>)>>
    /\ builder = [lines |-> <<>>, lineno |-> -2, offset |-> -2, indent |-> 0,
                  local_vars |-> {}]
    /\ todo = <<BlockItem(given, 0)>>
    /\ building = "yes"
    /\ raising = "none"
    /\ added = <<>>
    /\ required = <<>>

BuildInit ==
    /\ NewEngine /\ budget = 0 /\ NoRender /\ NoCompile
    /\ \/ \E shapes \in SeqsUpTo(Shapes, MaxShapes) : Begun(shapes)
       \/ \E shapes \in BuildSamples : Begun(shapes)

BuildNext ==
    \/ rule_statement
    \/ rule_comment
    \/ rule_missing
    \/ rule_require
    \/ rule_out
    \/ build_out_token
    \/ rule_compound
    \/ rule_def
    \/ def_return
    \/ def_setdefs
    \/ rule_end
    \/ rule_render
    \/ render_end
    \/ add_next
    \/ with_exit
    \/ unwind
    \/ build_done

BuildSpec == BuildInit /\ [][BuildNext]_vars

\* ==================================================================== claims
Frames(t) == {stk[t][i] : i \in 1..Len(stk[t])}
Wrapped == {"remove", "compile_template", "compile_import"}

\* ---- C1
\* Thread t's last call was get_template(name) without options, it returned, and
\* templates[name] was not evicted from the start of that call until now.
CleanGet(t) ==
    /\ ~Busy(t) /\ clean[t]
    /\ res[t].op = "get_template" /\ res[t].kw = NoOpts /\ res[t].k = "ret"

\* C1: get_template(name) calls with no eviction of the name in between all
\* return the one Template that is cached, and it is the last one compiled for
\* the name; a Template is only ever built for a name that is not cached (so a
\* cached name is not compiled again, and after remove(name) it is once).
C1_CachedTemplateReturned ==
    /\ \A t \in Threads :
         CleanGet(t) =>
           /\ res[t].name \in DOMAIN templates
           /\ templates[res[t].name] = res[t].v
           /\ res[t].v.ver = compiled[res[t].name]
    /\ \A t \in Threads :
         At(t, "compile_template", "ct_put_templates") =>
           /\ Top(t).name \notin DOMAIN templates
           /\ Top(t).obj.ver = compiled[Top(t).name]

\* Two callers hold the same Template of "a", which was compiled a second time
\* after an eviction.
C1_Witness ==
    \E t \in Threads : \E u \in Threads \ {t} :
        /\ CleanGet(t) /\ res[t].name = "a" /\ res[t].v.ver = 2
        /\ ~Busy(u) /\ res[u].op = "get_template" /\ res[u].k = "ret" /\ res[u].v = res[t].v

\* ---- C2
CacheState == <<templates, renders, modules>>

\* C2: every step that changes templates, renders or modules is taken by the
\* thread that holds the Engine's lock.
C2_MutationsHoldLock ==
    [][\A t \in Threads :
         (stk'[t] # stk[t] /\ CacheState' # CacheState) => lock = t]_vars

\* ---- C3
\* C3: a compile_template that fails has written nothing to the caches and the
\* caches never hold a Template of a source that does not compile; the lock is
\* held only by a thread that is inside a wrapped method, so it is released
\* when the failed call is left.
C3_FailedCompileLeavesCaches ==
    /\ \A t \in Threads : \A f \in Frames(t) :
         (f.fn = "compile_template" /\ f.pend.k = "exc") => ~f.wrote
    /\ \A n \in DOMAIN templates :
         templates[n].name = n /\ Stage(n, templates[n].src) = "ok"
    /\ \A n \in DOMAIN renders :
         renders[n].name = n /\ Stage(n, renders[n].src) = "ok"
    /\ \A t \in Threads :
         lock = t => Busy(t) /\ Top(t).fn \in Wrapped /\ Top(t).pc # "acquire"

\* get_template("a", source=<broken>) raised SyntaxError to its caller, "a" is
\* not cached and the lock is free.
C3_Witness ==
    \E t \in Threads :
        /\ ~Busy(t) /\ res[t].op = "get_template" /\ res[t].name = "a"
        /\ res[t].k = "exc" /\ res[t].v = "SyntaxError"
        /\ "a" \notin DOMAIN templates /\ lock = Free

\* ---- C4
\* C4: a module is in the modules cache only with its defs bound, so import_name
\* never returns one without them, and a compile_import whose exec fails has
\* left modules as it was.
C4_ModuleCachedAfterExec ==
    /\ \A n \in DOMAIN modules : modules[n].bound
    /\ \A t \in Threads :
         (~Busy(t) /\ res[t].op = "import_name" /\ res[t].k = "ret") => res[t].v.bound
    /\ \A t \in Threads : \A f \in Frames(t) :
         (f.fn = "compile_import" /\ f.pend.k = "exc") => ~f.wrote

\* ---- C5
\* C5: a call of Engine.render that found the routine of its name in the cache
\* never goes on to a method that takes the lock.
C5_CachedRenderTakesNoLock ==
    \A t \in Threads : \A i \in 1..(Len(stk[t]) - 1) :
        ~(stk[t][i].fn = "render" /\ stk[t][i].hit /\ stk[t][i + 1].fn \in Wrapped)

\* ---- C6
Waiting(t) == Busy(t) /\ Top(t).pc = "acquire"

C7_RoutineInvokedOnce ==
    \A t \in Threads : \A f \in Frames(t) : f.fn = "render" => f.n <= 1

\* ---- C8
Rendering(t) == Busy(t) /\ stk[t][1].fn \in {"Template.render", "render"}
SameEntries(f, g) == \A n \in DOMAIN f : n \in DOMAIN g /\ g[n].name = f[n].name
SameObjects(f, g) == \A n \in DOMAIN f : n \in DOMAIN g /\ g[n] = f[n]

\* The tables of a Template.render call are its own: two new ones, in use by no
\* other thread, and empty when the routine starts.
FreshTables ==
    \A t \in Threads :
        (Busy(t) /\ stk[t][1].fn = "Template.render") =>
          /\ stk[t][1].ld # stk[t][1].sd
          /\ \A u \in Threads \ {t} : \A f \in Frames(u) :
               {f.ld, f.sd} \cap {stk[t][1].ld, stk[t][1].sd} = {}
          /\ (Len(stk[t]) = 2 /\ Top(t).fn = "routine" /\ Top(t).ip = 1) =>
               dicts[stk[t][1].ld] = {} /\ dicts[stk[t][1].sd] = {}

\* C8: every Template.render runs on two new empty tables of its own, and no
\* step of a render changes or removes an entry that is in templates, renders
\* or modules.
C8_RenderKeepsCacheEntries ==
    /\ []FreshTables
    /\ [][\A t \in Threads :
            (Rendering(t) /\ stk'[t] # stk[t]) =>
              /\ SameObjects(templates, templates')
              /\ SameObjects(renders, renders')
              /\ SameEntries(modules, modules')]_vars

\* ---- C9
\* C9 (amended): no key of templates or renders is None or "", a
\* compile_template without a name never writes to a cache, and what it returns
\* is the Template it has just built.
C9_AnonymousTemplateNotCached ==
    /\ Falsy \cap (DOMAIN templates \cup DOMAIN renders) = {}
    /\ \A t \in Threads : \A f \in Frames(t) :
         (f.fn = "compile_template" /\ ~Truthy(f.name)) =>
           /\ ~f.wrote
           /\ f.pc \notin {"ct_put_templates", "ct_put_renders"}
           /\ f.pend.k = "ret" => f.pend.v = f.obj /\ f.obj # NoObj

\* C9 (as stated): the same, and no key of modules is None or "" either.
C9_NoFalsyKey ==
    /\ C9_AnonymousTemplateNotCached
    /\ Falsy \cap DOMAIN modules = {}

\* get_template(None, source=...) returned a Template.
C9_Witness ==
    \E t \in Threads :
        /\ ~Busy(t) /\ res[t].op = "get_template" /\ ~Truthy(res[t].name)
        /\ res[t].k = "ret" /\ res[t].v.src = "ok"

\* ---- C10
\* The defs a template holds, and whether it defines the block name.
DefsOf(i) ==
    LET nodes == IF chain[i] # <<>> /\ chain[i][Len(chain[i])].tok = "extends"
                 THEN chain[i][Len(chain[i])].nodes ELSE chain[i] IN
    {nodes[k].name : k \in {j \in 1..Len(nodes) : nodes[j].tok = "def"}}
Overridden(name) ==
    Len(chain) >= 2 /\ name \in DefsOf(1) /\ name \in DefsOf(Len(chain))
Child(name) == [tpl |-> 1, text |-> name]

\* C10: when the rendered child and the base it extends both define a block,
\* a call of the block by its name runs the child's body at that place, and a
\* body of that block from another template runs, and shows in the output,
\* only through a call of super_defs[name].
C10_ChildBlockOverrides ==
    \A name \in BlockNames : Overridden(name) =>
        /\ \A k \in 2..Len(rframes) :
              (rframes[k].kind = "def" /\ rframes[k - 1].code[rframes[k - 1].ip].op = "w_local"
                 /\ rframes[k - 1].code[rframes[k - 1].ip].name = name)
                => rframes[k].tpl = 1 /\ rframes[k].name = name
        /\ \A e \in calls :
              /\ (e.name = name /\ e.via = "local") => e.owner = 1
              /\ (e.name = name /\ e.owner # 1) => e.via = "super"
        /\ result.status = "done" =>
              \A k \in 1..Len(result.value) :
                  (result.value[k].text = name /\ result.value[k].tpl # 1) =>
                     \E e \in calls : e.name = name /\ e.via = "super"
                                        /\ e.owner = result.value[k].tpl

\* The base called the block by its name and the render returned the child's body.
C10_Witness ==
    /\ result.status = "done"
    /\ Overridden("block_a")
    /\ \E e \in calls : e.name = "block_a" /\ e.via = "local" /\ e.owner = 1
                        /\ e.by = Len(chain) /\ e.from = "render"
    /\ \E k \in 1..Len(result.value) : result.value[k] = Child("block_a")

\* The compounds and defs of the stream ts left open where parsing ends: the
\* positions on the stack kept from position p on, an end closing the
\* innermost open one, and an end with nothing open ending the parse.
RECURSIVE LeftOpen(_, _, _)
LeftOpen(ts, p, open) ==
    IF p > Len(ts) THEN open
    ELSE IF ts[p].token \in COMPOUND_TOKENS THEN LeftOpen(ts, p + 1, Append(open, p))
    ELSE IF ts[p].token = "end"
    THEN IF open = <<>> THEN open
         ELSE LeftOpen(ts, p + 1, SubSeq(open, 1, Len(open) - 1))
    ELSE LeftOpen(ts, p + 1, open)

UnclosedLines(ts) ==
    LET open == LeftOpen(ts, 1, <<>>) IN
    {ts[open[k]].lineno : k \in {j \in 1..Len(open) : ts[open[j]].token # "extends"}}

Parsed == phase \in {"nodes", "failed"}

\* C11: a stream in which a compound or def statement has no matching end
\* fails to parse with the missing-end error, and the line the error reports
\* is the line of an unclosed statement itself.
C11_MissingEndLine ==
    (Parsed /\ UnclosedLines(tokens) # {}) =>
        /\ phase = "failed"
        /\ failure.error = "Missing end"
        /\ failure.line \in UnclosedLines(tokens)

\* The nodes of a tree, at every depth.
RECURSIVE AllNodes(_)
AllNodes(ns) ==
    UNION {{ns[i]} \cup AllNodes(ns[i].nodes) : i \in 1..Len(ns)}

EndsInEnd(ns) ==
    /\ ns # <<>>
    /\ ns[Len(ns)].token = "end"
    /\ \A i \in 1..(Len(ns) - 1) : ns[i].token # "end"

\* C12: whatever the stream, parse_iter either raises the missing-end error or
\* yields a tree in which the children of every compound and def node end in
\* an end node and hold no other end node; a compound that is the last token,
\* with an empty body, is rejected.
C12_CompoundEndsWithEnd ==
    phase = "nodes" =>
        \A n \in AllNodes(tree) : n.token \in {"compound", "def"} => EndsInEnd(n.nodes)

\* The functions an expression applies, the first applied first, and the
\* name they are applied to.
RECURSIVE Applied(_)
Applied(e) == IF IsCall(e) THEN Append(Applied(Argument(e)), Callee(e)) ELSE <<>>
RECURSIVE Innermost(_)
Innermost(e) == IF IsCall(e) THEN Innermost(Argument(e)) ELSE e

\* The filters that are to be applied for the chain fs under the default
\* filters df, each as the function it names.
ToApply(fs, df) ==
    LET kept == IF fs # <<>> /\ fs[Len(fs)] = <<"n">> THEN SubSeq(fs, 1, Len(fs) - 1)
                ELSE fs \o df IN
    [k \in 1..Len(kept) |-> IF kept[k] = <<"e">> THEN Escape ELSE kept[k]]

\* What applying the functions fs, in their order, makes of the value x.
RECURSIVE ApplyAll(_, _)
ApplyAll(fs, x) ==
    IF fs = <<>> THEN x
    ELSE ApplyAll(Tail(fs), IF Head(fs) = Str THEN unicode(x) ELSE escape_html(x))

VarRequest == V \in DOMAIN request.ctx

\* C13: for the variable v|f1|...|fk the value written is f1, then f2, ... then
\* fk applied to v, and after them the default filters in their order; when fk
\* is the marker n, the marker is dropped without being applied and no default
\* filter is applied.
C13_FiltersLeftToRight ==
    (VarRequest /\ phase \in {"built", "template", "rendered"}) =>
        /\ Len(built) = 4
        /\ built[3].op = "w"
        /\ Innermost(built[3].text) = V
        /\ Applied(built[3].text) = ToApply(request.filters, request.default_filters)
        /\ phase = "rendered" =>
              written = ApplyAll(ToApply(request.filters, request.default_filters),
                                 request.ctx[V]).v

\* {{ v| e| str| n }} under the default filters str, e was rendered: escape and
\* then str were applied, and nothing else.
C13_Witness ==
    /\ phase = "rendered"
    /\ request.filters = <<<<"e">>, Str, <<"n">>>>
    /\ request.default_filters = <<Str, <<"e">>>>
    /\ built[3].text = Str \o <<"(">> \o Escape \o <<"(", "v", ")", ")">>
    /\ written = <<"&", "l", "t", ";", "a", "&", "g", "t", ";">>

\* A source that is literal text: no {{ in it, and no line that begins, after
\* spaces, with the statement leader.
LeaderAt(text, i) ==
    /\ i = 1 \/ text[i - 1] = "\n"
    /\ CharAt(text, SkipOver(text, i, {" "})) = "%"
Literal(text) ==
    /\ \A i \in 1..Len(text) : ~(text[i] = "{" /\ CharAt(text, i + 1) = "{")
    /\ \A i \in 1..Len(text) : ~LeaderAt(text, i)
\* No line of it is joined to the next, and no line ends the DOS way.
PlainLines(text) ==
    \A i \in 1..Len(text) : text[i] \in {"\\", "\r"} => CharAt(text, i + 1) # "\n"

\* A source was asked for and Loader.load has returned it.
SourceLoaded ==
    /\ \/ request.stored \in {"given", "templates"}
       \/ request.stored = "file" /\ request.name # Null
    /\ phase \notin {"none", "request"}

\* C14 as stated: a source that is only literal text renders as exactly that
\* text, whatever the context.
C14_LiteralRendersItself ==
    (SourceLoaded /\ Literal(request.source)) =>
        /\ phase # "failed"
        /\ phase = "built" => Interpretable(built)
        /\ phase = "rendered" => written = request.source

\* C14: a source that is only literal text, with no backslash and no carriage
\* return before a newline, renders as exactly that text, whatever the context.
C14_PlainLiteralRendersItself ==
    (SourceLoaded /\ Literal(request.source) /\ PlainLines(request.source)) =>
        /\ phase # "failed"
        /\ phase = "built" => Interpretable(built)
        /\ phase = "rendered" => written = request.source

\* Literal text of two lines was rendered with a list as items.
C14_Witness ==
    /\ phase = "rendered"
    /\ request.source = LiteralText
    /\ Items \in DOMAIN request.ctx /\ request.ctx[Items].v # <<>>
    /\ written = LiteralText

\* The string forms of the numbers ns, one after the other.
RECURSIVE Digits(_)
Digits(ns) == IF ns = <<>> THEN <<>> ELSE <<Digit(Head(ns).v)>> \o Digits(Tail(ns))

\* C15: a source of a for line, a body line that holds one variable, and an
\* end line renders, for a list of items, the string forms of the items one
\* after the other and nothing else: [1, 2, 3] gives "123".
C15_ForRendersItems ==
    (/\ request.source = ForCtxItems
     /\ Items \in DOMAIN request.ctx
     /\ phase \in {"rendered", "failed"}) =>
        /\ phase = "rendered"
        /\ written = Digits(request.ctx[Items].v)

\* C16: at every position before the end of the source the rule that matches
\* raises nothing and returns a position after the current one, so that
\* tokenize can only fail with the error of no rule matching.
C16_RulesAdvance ==
    (phase = "lexing" /\ pos < Len(Source)) =>
        LET rv == first_rule(Source, pos + 1) IN
        /\ rv.error = "none"
        /\ rv.ok => rv.npos - 1 > pos

\* The tokens tokenize has made from a source.
Tokenizing == request.stored # "tokens" /\ phase \in {"lexing", "tokens"}
LineNumbers == [k \in 1..Len(tokens) |-> tokens[k].lineno]

\* C17 as stated: every token's line number is greater than that of the token
\* before it.
C17_LinesStrictlyIncrease ==
    Tokenizing => \A k \in 2..Len(tokens) : tokens[k - 1].lineno < tokens[k].lineno

\* C17: no token's line number is less than that of the token before it: the
\* first token is on line 1 and the next token's line is 1 more than the
\* newlines tokenized so far.
C17_LinesNeverDecrease ==
    Tokenizing =>
        /\ \A k \in 2..Len(tokens) : tokens[k - 1].lineno <= tokens[k].lineno
        /\ tokens # <<>> => tokens[1].lineno = 1 /\ tokens[Len(tokens)].lineno <= lineno
        /\ lineno = 1 + Newlines(Piece(Source, 1, pos))

\* Text and variables on two lines were tokenized: three tokens on line 1.
C17_Witness ==
    /\ phase = "tokens"
    /\ request.source = TextVarText
    /\ LineNumbers = <<1, 1, 1, 2>>

\* Loader.load was called with source= and has returned.
LoadedGiven == request.stored = "given" /\ phase \notin {"none", "request"}

\* C19 as stated: with a source supplied, load returns a null identifier and
\* the text given, whatever the name.
C19_GivenSourceHasNoIdentifier ==
    LoadedGiven => loaded.path = Null /\ loaded.text = request.source

\* C19: with a source supplied, load returns the name it was called with as
\* the identifier, null only when the name is, and the text given, unchanged.
C19_GivenSourceKeepsName ==
    LoadedGiven => loaded.path = request.name /\ loaded.text = request.source

\* load('t', source) has returned ('t', source).
C19_Witness ==
    /\ LoadedGiven
    /\ request.name = "t"
    /\ request.source = TwoLines
    /\ loaded = [path |-> "t", text |-> TwoLines]

\* The source is a require and, after it, an extends that holds the rest.
RequireThenExtends ==
    /\ phase = "built"
    /\ Len(tree) = 2
    /\ tree[1].token = "require"
    /\ tree[2].token = "extends"

\* The statements built, without those under a def.
Ops(lines) == [k \in 1..Len(lines) |-> lines[k].op]
Kept(nodes) == SelectSeq(nodes, LAMBDA n : n.token \in {"def", "require"})
RECURSIVE OpsOf(_)
OpsOf(nodes) ==
    IF nodes = <<>> THEN <<>>
    ELSE (IF Head(nodes).token = "def" THEN <<"def", "setdefs">> ELSE <<"require">>)
           \o OpsOf(Tail(nodes))

\* C18 as stated: the routine binds the names of the require before the
\* extends first, then defines the child's defs and delegates.
C18_RequireBeforeExtendsBound ==
    RequireThenExtends =>
        /\ built[1].op = "require"
        /\ built[1].names = tree[1].value
        /\ built[Len(built)].op = "return_r"

\* C18: the routine of a source that is a require and then an extends has
\* nothing for that require: it holds the defs and requires under the extends,
\* in their order, and then the delegation to the parent; no other content of
\* the child is in it.
C18_RequireBeforeExtendsIgnored ==
    RequireThenExtends =>
        /\ Ops(built) = OpsOf(Kept(tree[2].nodes)) \o <<"return_r">>
        /\ built[Len(built)].text = tree[2].value
        /\ \A k \in 1..Len(built) :
              built[k].op = "require" =>
                 \E j \in 1..Len(tree[2].nodes) :
                     /\ tree[2].nodes[j].token = "require"
                     /\ built[k].names = tree[2].nodes[j].value

\* %require(v), %extends("b") and a def were built: the def, its setdefs line
\* and the delegation, and no binding of v.
C18_Witness ==
    /\ RequireThenExtends
    /\ request.source = RequireExtends
    /\ tree[1].value = <<V>>
    /\ Ops(built) = <<"def", "setdefs", "return_r">>

\* ---- C20
\* The def nodes a template holds, and the function its def of name makes.
DefNodes(t) ==
    LET nodes == IF NodesOf(t) # <<>> /\ NodesOf(t)[Len(NodesOf(t))].tok = "extends"
                 THEN NodesOf(t)[Len(NodesOf(t))].nodes ELSE NodesOf(t) IN
    SelectSeq(nodes, LAMBDA n : n.tok = "def")
BodyOf(t, name) ==
    LET ns == DefNodes(t)
        k == CHOOSE j \in 1..Len(ns) : ns[j].name = name IN
    [tpl |-> t, name |-> name, code |-> DefBody(ns[k].nodes)]

\* The executions of a def of name, by their place in the execution order.
Defining(name) == {k \in 1..Len(defined) : defined[k].name = name}
LastOf(S) == CHOOSE k \in S : \A j \in S : j <= k

\* The base of the chain includes a template.
BaseIncludes ==
    \E k \in 1..Len(chain[Len(chain)]) :
        /\ chain[Len(chain)][k].tok = "out"
        /\ \E j \in 1..Len(chain[Len(chain)][k].sub) : chain[Len(chain)][k].sub[j] = Include

Continues(ts, i) == Cardinality({k \in 1..i : ts[k].token = "continue"})

\* out is ts with every continue token replaced by an end and a compound of
\* the same line and text, the other tokens as they were and in their order.
Rewritten(ts, out) ==
    /\ Len(out) = Len(ts) + Continues(ts, Len(ts))
    /\ \A i \in 1..Len(ts) :
          LET j == i + Continues(ts, i) IN
          IF ts[i].token = "continue"
          THEN /\ out[j - 1].token = "end"
               /\ out[j - 1].lineno = ts[i].lineno
               /\ out[j] = Token(ts[i].lineno, "compound", ts[i].value)
          ELSE out[j] = ts[i]

\* The stream s is a compound, a body, the end made up for a continue, the
\* compound made of it, a body and an end of the source; m is where the
\* made-up end stands.
BodyTokens(s, a, b) ==
    \A k \in a..b : s[k].token \notin COMPOUND_TOKENS \cup {"end", "continue"}
IfElseAt(s, m) ==
    /\ m \in 2..(Len(s) - 2)
    /\ s[1].token = "compound"
    /\ s[m].token = "end" /\ s[m].value = None
    /\ s[m + 1].token = "compound" /\ s[m + 1].lineno = s[m].lineno
    /\ s[Len(s)].token = "end" /\ s[Len(s)].value # None
    /\ BodyTokens(s, 2, m - 1)
    /\ BodyTokens(s, m + 2, Len(s) - 1)
IfElseChain(s) == \E m \in 1..Len(s) : IfElseAt(s, m)

\* The nodes are the if and, after it at the same depth, the else: the if's
\* children end with the made-up end, the else's with the end of the source.
GroupedAsSiblings(s, nodes) ==
    LET m == CHOOSE k \in 1..Len(s) : IfElseAt(s, k) IN
    /\ Len(nodes) = 2
    /\ nodes[1].token = "compound" /\ nodes[1].value = s[1].value
    /\ nodes[1].nodes # <<>> /\ nodes[1].nodes[Len(nodes[1].nodes)] = s[m]
    /\ nodes[2].token = "compound" /\ nodes[2].value = s[m + 1].value
    /\ nodes[2].lineno = s[m + 1].lineno
    /\ nodes[2].nodes # <<>> /\ nodes[2].nodes[Len(nodes[2].nodes)] = s[Len(s)]
    /\ \A i \in 1..2 : \A k \in 1..(Len(nodes[i].nodes) - 1) :
          nodes[i].nodes[k].token \notin COMPOUND_TOKENS \cup {"end"}

\* C21: end_continue replaces every continue token by an end and a compound of
\* the same line and text and leaves the other tokens as they are, in their
\* order; grouping the stream of an if, an else and an end gives the if, whose
\* children end with the made-up end, and directly after it at the same depth
\* the else, whose children end with the end of the source.
C21_ContinueClosesAndOpens ==
    [][/\ (phase = "tokens" /\ phase' = "stream") => Rewritten(tokens, tokens')
       /\ (phase = "stream" /\ phase' # "stream" /\ IfElseChain(tokens)) =>
             (phase' = "nodes" /\ GroupedAsSiblings(tokens, tree'))]_vars

\* A compound, text, a continue and an end were grouped: the if holds the text
\* and the made-up end of line 3, the else holds the end of line 4.
C21_Witness ==
    /\ phase = "nodes"
    /\ request.stored = "tokens"
    /\ [k \in 1..Len(tokens) |-> tokens[k].token]
         = <<"compound", "markup", "end", "compound", "end">>
    /\ Len(tree) = 2
    /\ Len(tree[1].nodes) = 2
    /\ tree[1].nodes[2] = Token(3, "end", None)
    /\ tree[2].lineno = 3
    /\ tree[2].nodes = <<Token(4, "end", TextOf("end"))>>

\* ---- C30
\* The tokens of a tree in the order of the stream: a compound's header and
\* then its children, an out node's sub-tokens, any other node as it is.
RECURSIVE Flatten(_)
Flatten(nodes) ==
    IF nodes = <<>> THEN <<>>
    ELSE LET n == Head(nodes) IN
         (CASE n.token = "out" -> n.nodes
            [] n.token \in COMPOUND_TOKENS ->
                 <<Token(n.lineno, n.token, n.value)>> \o Flatten(n.nodes)
            [] OTHER -> <<n>>) \o Flatten(Tail(nodes))

\* C30: the tree parse_iter yields holds every token of the stream end_continue
\* produced, once and in the order of the stream, also the tokens after an end
\* that closes nothing.
C30_GroupingKeepsTokens ==
    phase = "nodes" => Flatten(tree) = tokens

\* ------------------------------------------------------------------ C22
Begins(s, t) == Len(s) <= Len(t) /\ SubSeq(t, 1, Len(s)) = s
Emitted == {k \in 1..Len(added) : added[k].on > 0}

\* Where the lines stand: as many lines of text as lineno is past offset, and
\* the code of every call of add on the line of text that is its line less
\* the offset.
LinesCorrespond ==
    /\ TextLines(builder.lines) = builder.lineno - builder.offset
    /\ \A k \in Emitted : added[k].on = added[k].line - builder.offset

\* What a call of add does to the lines: for a line past lineno the lines in
\* between are added blank and the code is on a new line; for the line at
\* lineno the code is put after the text of the last line, and no line is
\* added. No call is for a line before lineno.
AddedTo ==
    LET old == builder.lines
        new == builder'.lines
        a == added'[Len(added')] IN
    /\ raising' = "AssertionError" /\ raising = "none" => ThisNode.token = "extends"
    /\ new # old =>
         /\ Len(added') = Len(added) + 1
         /\ a.line >= builder.lineno
         /\ IF a.line > builder.lineno
            THEN /\ Len(new) = Len(old) + (a.line - builder.lineno)
                 /\ SubSeq(new, 1, Len(old)) = old
                 /\ \A j \in (Len(old) + 1)..(Len(new) - 1) : new[j] = <<>>
            ELSE /\ Len(new) = Len(old)
                 /\ SubSeq(new, 1, Len(old) - 1) = SubSeq(old, 1, Len(old) - 1)
                 /\ Begins(old[Len(old)], new[Len(new)])
                 /\ a.on = TextLines(old) - Newlines(old[Len(old)])
                           + Newlines(new[Len(new)]) - (builder'.lineno - a.line)

\* C22: in every build of the sources tried, after every call of add the
\* lines emitted are lineno - offset, the code given for line L is on line
\* L - offset of what is generated, the lines skipped are blank, and code for
\* the line already emitted is put at the end of that line; add is never
\* called for a line before the one it is at.
C22_LineCorrespondence == [](LinesCorrespond) /\ [][AddedTo]_vars

\* A build that ended with a line left blank between two lines of code and
\* with two calls whose code is on one line.
C22_Witness ==
    /\ building = "done"
    /\ \E j \in 2..(Len(builder.lines) - 1) :
          builder.lines[j] = <<>> /\ builder.lines[j - 1] # <<>> /\ builder.lines[j + 1] # <<>>
    /\ \E j, k \in Emitted : j < k /\ added[j].on = added[k].on

\* ------------------------------------------------------------------ C23
\* The with blocks that are open: the __exit__ calls still to come.
OpenBlocks == Cardinality({i \in 1..Len(todo) : todo[i].op = "exit"})

\* The entries of the list that begin on a line of text, and the call of add
\* that began the line.
BeginsOn(t) ==
    {i \in 1..Len(builder.lines) : 1 + TextLines(SubSeq(builder.lines, 1, i - 1)) = t}
BeganLine(k) ==
    /\ k \in Emitted
    /\ BeginsOn(added[k].on) # {}
    /\ \A j \in Emitted : j < k => added[j].on # added[k].on
Before(k) == CHOOSE j \in Emitted : j < k /\ \A i \in Emitted : i < k => i <= j

Binding(v) == v \o <<" ", "=", " ", "c", "t", "x", "[", "'">> \o v \o <<"'", "]">>
Occurs(pat, s) ==
    Cardinality({p \in 1..(Len(s) - Len(pat) + 1) : SubSeq(s, p, p + Len(pat) - 1) = pat})
NamesOf(values) == {values[i] : i \in 1..Len(values)}
RequiredNames == UNION {NamesOf(required[k].values) : k \in 1..Len(required)}

\* The bindings the first k require nodes built are to have emitted for v: one
\* for each time a node names v that did not find it in local_vars.
RECURSIVE Bindings(_, _)
Bindings(v, k) ==
    IF k = 0 THEN 0
    ELSE Bindings(v, k - 1)
         + (IF v \in required[k].had THEN 0
            ELSE Cardinality({i \in 1..Len(required[k].values) : required[k].values[i] = v}))

\* C24: the code generated binds a name from ctx exactly where a require node
\* names it and it was not in local_vars when the node was built; once a
\* require node is built all its names are in local_vars, and what a node
\* finds there is what the nodes before it named, so a name an earlier
\* require bound is not bound again by a later one.
C24_RequireBindsOnce ==
    /\ \A v \in RequiredNames :
          Occurs(Binding(v), join_lines(builder.lines)) = Bindings(v, Len(required))
    /\ \A k \in 1..Len(required) :
          /\ NamesOf(required[k].values) \subseteq builder.local_vars
          /\ required[k].had = UNION {NamesOf(required[j].values) : j \in 1..(k - 1)}
    /\ builder.local_vars = RequiredNames

\* A build that returned, in which a require node bound a name and a later
\* one that names it bound nothing for it.
C24_Witness ==
    /\ building = "done"
    /\ \E j, k \in 1..Len(required) : \E v \in NamesOf(required[k].values) :
          /\ j < k
          /\ v \in NamesOf(required[j].values)
          /\ v \in required[k].had
          /\ Occurs(Binding(v), join_lines(builder.lines)) = 1

\* ------------------------------------------------------------------ C25
\* C25: a get_template(name, source=...) that returns, returns a Template
\* compiled from the source it was given.
C25_OverrideCompiledWithOptions ==
    \A t \in Threads :
       res[t].op = "get_template" /\ res[t].k = "ret" /\ res[t].kw # NoOpts
          => res[t].v.src = res[t].kw

\* ------------------------------------------------------------------ C26
\* The entry of n is the same in f and in g.
SameEntry(f, g, n) ==
    /\ (n \in DOMAIN f) = (n \in DOMAIN g)
    /\ n \in DOMAIN f /\ n \in DOMAIN g => f[n] = g[n]
Cached(n) == n \in DOMAIN templates \cup DOMAIN renders \cup DOMAIN modules

\* A remove that is about to leave has raised nothing and has left its name
\* in none of the three caches.
RemoveDone ==
    \A t \in Threads :
       At(t, "remove", "release")
          => Top(t).pend.k = "ret" /\ ~Cached(Top(t).name)

\* A step of remove leaves the entries of every other name as they are.
RemoveFrame ==
    \A t \in Threads :
       Busy(t) /\ Top(t).fn = "remove" /\ stk'[t] # stk[t]
          => \A n \in Loaded \ {Top(t).name} :
                /\ SameEntry(templates, templates', n)
                /\ SameEntry(renders, renders', n)
                /\ SameEntry(modules, modules', n)

\* C26: remove(name) returns with name in none of templates, renders and
\* modules, whether it was cached or not, raises nothing, and changes the
\* entry of no other name.
C26_RemoveDeletesName == [](RemoveDone) /\ [][RemoveFrame]_vars

\* ------------------------------------------------------------------ C28
\* C28: whenever no thread holds the lock, templates and renders have the
\* same names, and renders[name] is the routine of templates[name].
C28_TemplatesAndRendersAgree ==
    lock = Free =>
       /\ DOMAIN templates = DOMAIN renders
       /\ \A n \in DOMAIN templates : renders[n] = templates[n]

\* ------------------------------------------------------------------ C29
\* C29: a render that has compiled its name finds it in renders when it reads
\* renders[name] again, and an import_name that has compiled its name finds
\* it in modules.
C29_RereadFindsEntry ==
    \A t \in Threads :
       /\ At(t, "render", "er_second") => Top(t).name \in DOMAIN renders
       /\ At(t, "import_name", "in_final") => Top(t).name \in DOMAIN modules

\* ------------------------------------------------------------------ C27
\* The routines threads are running or about to run for a render.
Routines ==
    UNION {{stk[t][i].obj : i \in {j \in 1..Len(stk[t]) : stk[t][j].fn = "routine"}} :
           t \in Threads}
Returned == {res[t].v : t \in {u \in Threads : res[u].op = "get_template" /\ res[u].k = "ret"}}

\* C27: with the threads calling get_template(name) and render(name) for one
\* name and nothing evicting it, the name is compiled at most once, and every
\* Template a get_template returns and every routine a render invokes is that
\* of the one compilation.
C27_CompiledOnce ==
    /\ compiled[Shared] <= 1
    /\ \A x \in Returned \cup Routines : x = [name |-> Shared, ver |-> 1, src |-> NoOpts]
    /\ Returned # {} =>
          /\ compiled[Shared] = 1 /\ Shared \in DOMAIN templates
          /\ \A x \in Returned : x = templates[Shared]
    /\ Routines # {} =>
          /\ compiled[Shared] = 1 /\ Shared \in DOMAIN renders
          /\ \A x \in Routines : x = renders[Shared]

\* Two threads missed the name: one has compiled it and returned the
\* Template, the other, inside compile_template with the lock, found it
\* cached and is about to return the same.
C27_Witness ==
    \E t, u \in Threads :
       /\ t # u
       /\ res[t].op = "get_template" /\ res[t].k = "ret"
       /\ At(u, "compile_template", "release")
       /\ Top(u).pend = Ret(res[t].v)
       /\ compiled[Shared] = 1

====
